---- MODULE Spec2Model ----
(***************************************************************************)
(* Host-authoritative bingo session: the host component (ActiveGame.tsx),  *)
(* the player component (PlayerClient.tsx) and the card / pattern helpers  *)
(* (gameUtils.ts), as a state machine.                                     *)
(*                                                                         *)
(* Encoding of cell values ((string | number) in the source): a STANDARD   *)
(* number is itself (1..75), a themed string is an integer above 100, the  *)
(* string 'FREE' is FreeValue and JavaScript's undefined is Undefined.     *)
(* A card id `p${owner}_c${card}_${Date.now()}` is the triple              *)
(* <<owner, card, clock reading>>; a cell id `p.._c.._r.._col..` is the    *)
(* tuple <<owner, card, row, col>>.                                        *)
(***************************************************************************)
EXTENDS Integers, Sequences, FiniteSets, TLC

\* ------------------------------------------------------------------ bounds
MaxCalls == 2
MaxRounds == 2
MaxClaims == 2
MaxAttempts == 2
MaxChats == 2
\* marked cells on the card handed to checkPatternMatch
MaxMarks == 5
\* messages of no protocol use in flight on one channel
MaxForeign == 1
\* Math.random() returns a multiple of 1 / RandDen
RandDen == 2

\* ------------------------------------------------------- program constants
GridSize == 5
CardsPerPlayer == 4
ColumnSpan == 15
ThemedItemCount == 24
\* addNotification keeps the newest five
NotificationsKept == 5

FreeValue == 0
Undefined == -1
NoCall == -2
NoCard == <<>>
NoIndex == -1
NoSetup == <<>>

Clients == {"c1", "c2"}

\* a player's connect attempts; every attempt makes a new Peer and, once the
\* signalling server answers, a new data connection <<player, attempt>>
Attempts == 1..MaxAttempts
Conns == Clients \X Attempts

\* ------------------------------------------------------------ gameUtils.ts
Range(a, b) == [i \in 1..(b - a + 1) |-> a + i - 1]

getStandardPatterns ==
    [r \in 1..GridSize |-> [k \in 1..GridSize |-> (r - 1) * GridSize + (k - 1)]]
    \o [c \in 1..GridSize |-> [k \in 1..GridSize |-> (c - 1) + GridSize * (k - 1)]]
    \o << <<0, 6, 12, 18, 24>>, <<4, 8, 12, 16, 20>> >>

\* the X preset read as the main diagonal alone
getPatternPreset_OneDiagonal(type) ==
    IF type = "BLACKOUT" THEN << Range(0, 24) >>
    ELSE IF type = "X" THEN << <<0, 6, 12, 18, 24>> >>
    ELSE IF type = "CORNERS" THEN << <<0, 4, 20, 24>> >>
    ELSE getStandardPatterns

getPatternPreset(type) ==
    IF type = "BLACKOUT" THEN << Range(0, 24) >>
    ELSE IF type = "X" THEN << <<0, 4, 6, 8, 12, 16, 18, 20, 24>> >>
    ELSE IF type = "CORNERS" THEN << <<0, 4, 20, 24>> >>
    ELSE getStandardPatterns

\* the test read as cell.marked alone
checkPatternMatch_MarkedOnly(cells, patterns) ==
    \E p \in 1..Len(patterns) :
        \A q \in 1..Len(patterns[p]) :
            LET index == patterns[p][q] IN
                /\ index + 1 \in 1..Len(cells)
                /\ cells[index + 1].marked

\* cells[index] is undefined (falsy) when index is outside the array
checkPatternMatch(cells, patterns) ==
    \E p \in 1..Len(patterns) :
        \A q \in 1..Len(patterns[p]) :
            LET index == patterns[p][q] IN
                /\ index + 1 \in 1..Len(cells)
                /\ (cells[index + 1].marked \/ cells[index + 1].isFreeSpace)

\* Math.floor(Math.random() * n) when Math.random() returns r / RandDen
RandomInt(r, n) == (r * n) \div RandDen

\* the exchange read as a single assignment possible[j] = possible[k]
Swap_Overwrite(s, a, b) == [s EXCEPT ![a] = s[b]]

\* [possible[j], possible[k]] = [possible[k], possible[j]]
Swap(s, a, b) == [s EXCEPT ![a] = s[b], ![b] = s[a]]

\* STANDARD column shuffle, for j = length-1 down to 1 (0-based j, k)
RECURSIVE ShuffleStandard(_, _, _)
ShuffleStandard(possible, j, r) ==
    IF j < 1 THEN possible
    ELSE ShuffleStandard(Swap(possible, j + 1, RandomInt(r, j + 1) + 1), j - 1, r)

\* THEMED shuffle: [shuffled[k], shuffled[k]] = [shuffled[k], shuffled[j]]
\* assigns shuffled[k] twice, last with shuffled[j]; shuffled[j] is not written
RECURSIVE ShuffleThemed(_, _, _)
ShuffleThemed(shuffled, j, r) ==
    IF j < 1 THEN shuffled
    ELSE ShuffleThemed(
            [shuffled EXCEPT ![RandomInt(r, j + 1) + 1] = shuffled[j + 1]],
            j - 1, r)

StandardColumn(c, r) ==
    SubSeq(ShuffleStandard(Range(ColumnSpan * c + 1, ColumnSpan * c + ColumnSpan),
                           ColumnSpan - 1, r), 1, GridSize)

\* r === 2 && c === 2 read as the first row and column
IsFree_Corner(i) == (i \div GridSize = 0) /\ (i % GridSize = 0)

\* const isFree = r === 2 && c === 2
IsFree(i) == (i \div GridSize = 2) /\ (i % GridSize = 2)

StandardCells(r) ==
    [n \in 1..(GridSize * GridSize) |->
        LET i == n - 1
            row == i \div GridSize
            col == i % GridSize
        IN [value |-> IF IsFree(i) THEN FreeValue ELSE StandardColumn(col, r)[row + 1],
            marked |-> FALSE,
            isFreeSpace |-> IsFree(i)]]

\* cardItems[itemIdx++] : the free cell consumes no item
ThemedCells(items, r) ==
    LET shuffled == ShuffleThemed(items, Len(items) - 1, r)
        cardItems == SubSeq(shuffled, 1, IF Len(shuffled) < ThemedItemCount
                                         THEN Len(shuffled) ELSE ThemedItemCount)
    IN [n \in 1..(GridSize * GridSize) |->
        LET i == n - 1
            itemIdx == IF i < 12 THEN i ELSE i - 1
        IN [value |-> IF IsFree(i) THEN FreeValue
                      ELSE IF itemIdx + 1 \in 1..Len(cardItems)
                           THEN cardItems[itemIdx + 1] ELSE Undefined,
            marked |-> FALSE,
            isFreeSpace |-> IsFree(i)]]

CardId(playerIdx, cardIdx, time) == <<playerIdx, cardIdx, time>>
CellId(card, n) == <<card.ownerIndex, card.cardIndex, (n - 1) \div GridSize, (n - 1) % GridSize>>

\* ------------------------------------------------------------ player names
\* String.prototype.trim / toLowerCase on the names the model uses
trim(name) == IF name = "Bob " THEN "Bob" ELSE IF name = " " THEN "" ELSE name

toLowerCase(name) ==
    CASE name = "Ann" -> "ann"
      [] name = "Bob" -> "bob"
      [] name = "Bob " -> "bob "
      [] name = "Host" -> "host"
      [] OTHER -> name

\* what a player types into the name field
TypedNames(c) == IF c = "c1" THEN {"Ann"} ELSE {"ann", "Bob "}

\* ----------------------------------------------------- GameSetup's outcomes
\* (mode, items, hostName, winPatterns) handed to onStartGame
StandardConfig ==
    [mode |-> "STANDARD", items |-> Range(1, 75), hostName |-> "Host",
     winPatterns |-> getStandardPatterns]

\* THEMED with the three-item list the service's fallback yields for a
\* one-item reply, and a CUSTOM grid of cell 0 plus the pre-filled centre
ThemedConfig ==
    [mode |-> "THEMED", items |-> <<101, 102, 103>>, hostName |-> "Host",
     winPatterns |-> << <<0, 12>> >>]

\* THEMED with another three-item list and a CUSTOM grid of cells 0, 1 and
\* the centre
SecondConfig ==
    [mode |-> "THEMED", items |-> <<104, 105, 106>>, hostName |-> "Host",
     winPatterns |-> << <<0, 1, 12>> >>]

\* STANDARD with the CUSTOM grid left as pre-filled: the centre cell alone
CentreConfig ==
    [mode |-> "STANDARD", items |-> Range(1, 75), hostName |-> "Host",
     winPatterns |-> << <<12>> >>]

InitConfigs == {ThemedConfig}
Configs == {ThemedConfig, SecondConfig}
RoundConfigs == {ThemedConfig, SecondConfig, StandardConfig}

\* Math.random() readings (numerators) the card shuffles are drawn from
ShuffleRand == {0}

Rand == 0..(RandDen - 1)

\* the cell layout of a card, tabulated once per mode, pool and reading
CardCells ==
    [themeMode \in {cfg.mode : cfg \in RoundConfigs} |->
        [items \in {cfg.items : cfg \in RoundConfigs} |->
            [r \in ShuffleRand |->
                IF themeMode = "STANDARD" THEN StandardCells(r) ELSE ThemedCells(items, r)]]]

\* generateCards(items, themeMode, [playerName], startIndex) at clock reading
\* `time`, with Math.random() returning r / RandDen throughout the call
generateCards(items, themeMode, playerName, startIndex, time, r) ==
    [k \in 1..CardsPerPlayer |->
        [id |-> CardId(startIndex, k - 1, time),
         ownerIndex |-> startIndex,
         cardIndex |-> k - 1,
         playerName |-> playerName,
         cells |-> CardCells[themeMode][items][r],
         hasBingo |-> FALSE]]

\* cells the operator's taps are drawn from: the first cell of a first card
ToggleCells == {0}
ToggleCards == {0}

\* ------------------------------------------------------------------- state
VARIABLES
    gameState,             \* host: React state, queued updates applied
    gameStateRef,          \* host: the state as of the last render, which is
                           \*   what gameStateRef.current and the handlers'
                           \*   closures read
    connectionsRef,        \* host: connectionsRef.current (array of channels)
    hostConfirming,        \* host: confirmingBingoCardId
    isAutoCalling,         \* host: isAutoCalling, queued updates applied
    rendered,              \* host: isAutoCalling and confirmingBingoCardId as of
                           \*   the last render (what its closures and buttons show)
    autoCallTimer,         \* host: the auto-call effect's timeout is pending
    setup,                 \* host: the setup dialog's pending theme request
    now,                   \* the latest reading of Date.now()
    rounds,                \* number of startNewRound calls so far
    claims,                \* number of CLAIM_BINGO messages sent so far
    client,                \* per player: PlayerClient's state
    connOpen,              \* per connection: conn.open
    toHost,                \* per connection: messages in flight to the host
    toClient,              \* per connection: messages in flight to the player
    chatMessages,          \* host: chatMessages
    dialog,                \* GameSetup: the setup form's state
    calc,                  \* gameUtils: the helper call being evaluated, its
                           \*   arguments, loop position and result
    lastOp                 \* history: the message or round operation the host
                           \*   handled last

hostVars == <<hostConfirming, isAutoCalling, rendered, autoCallTimer, setup, chatMessages>>

utilVars == <<dialog, calc>>

\* everything but the setup form and the helper under evaluation
sessionVars ==
    <<gameState, gameStateRef, connectionsRef, hostConfirming, isAutoCalling,
      rendered, autoCallTimer, setup, now, rounds, claims, client, connOpen, toHost, toClient,
      chatMessages, lastOp>>

vars == <<gameState, gameStateRef, connectionsRef, hostConfirming, isAutoCalling,
          rendered, autoCallTimer, setup, now, rounds, claims, client, connOpen, toHost, toClient,
          chatMessages, dialog, calc, lastOp>>

\* --------------------------------------------------------------- helpers
Includes(seq, x) == \E i \in 1..Len(seq) : seq[i] = x

Count(seq, x) == Cardinality({i \in 1..Len(seq) : seq[i] = x})

SeqMin(S) == CHOOSE x \in S : \A y \in S : x <= y

\* Array.prototype.find: the first element satisfying Test, by position
FindIndex(seq, Test(_)) ==
    IF \E i \in 1..Len(seq) : Test(seq[i])
    THEN SeqMin({i \in 1..Len(seq) : Test(seq[i])})
    ELSE 0

OwnerIndices(cards) == {cards[i].ownerIndex : i \in 1..Len(cards)}

\* hasBingo recompute effect, run with every render
Rendered(gs) ==
    [gs EXCEPT !.cards = [i \in 1..Len(gs.cards) |->
        [gs.cards[i] EXCEPT !.hasBingo = checkPatternMatch(gs.cards[i].cells, gs.winPatterns)]]]

\* broadcast(msg): one send per entry of connectionsRef whose channel is open
Broadcast(queues, msg) ==
    [k \in Conns |->
        IF connOpen[k]
        THEN queues[k] \o [i \in 1..Count(connectionsRef, k) |-> msg]
        ELSE queues[k]]

NewGameState(cfg, cards) ==
    [mode |-> cfg.mode, allItems |-> cfg.items, calledItems |-> <<>>,
     currentCall |-> NoCall, cards |-> cards, winnerIds |-> <<>>,
     winPatterns |-> cfg.winPatterns]

\* attempts: connectToRoom calls so far; connRef: the attempt whose connection
\* connRef.current holds (0: null); stage, closure, timer: per attempt, how far
\* the connection got, the status its closures captured, and whether its
\* timeout is pending; joins: JOIN_REQUESTs sent so far (history)
IdleClient ==
    [status |-> "IDLE", playerName |-> "", cards |-> <<>>, playerIndex |-> NoIndex,
     calledItems |-> <<>>, currentCall |-> NoCall, announcedWinners |-> <<>>,
     winPatterns |-> <<>>, confirmingBingoCardId |-> NoCard, isAutoMark |-> TRUE,
     chatMessages |-> <<>>, attempts |-> 0, connRef |-> 0,
     stage |-> [g \in Attempts |-> "none"],
     closure |-> [g \in Attempts |-> "none"],
     timer |-> [g \in Attempts |-> FALSE],
     joins |-> 0]

\* ActiveGame mounts with its initialState prop: a round for the host alone,
\* shaped as startNewRound builds one; nobody is connected
InitSession ==
    /\ \E cfg \in InitConfigs, r \in ShuffleRand :
          /\ gameState = NewGameState(cfg, generateCards(cfg.items, cfg.mode, cfg.hostName, 0, 0, r))
          /\ gameStateRef = gameState
    /\ connectionsRef = <<>>
    /\ hostConfirming = NoCard
    /\ isAutoCalling = FALSE
    /\ rendered = [isAutoCalling |-> FALSE, confirmingBingoCardId |-> NoCard]
    /\ autoCallTimer = FALSE
    /\ setup = NoSetup
    /\ now = 0
    /\ rounds = 0
    /\ claims = 0
    /\ client = [c \in Clients |-> IdleClient]
    /\ connOpen = [k \in Conns |-> FALSE]
    /\ toHost = [k \in Conns |-> <<>>]
    /\ toClient = [k \in Conns |-> <<>>]
    /\ chatMessages = <<>>
    /\ lastOp = [op |-> "init"]

\* GameSetup's useState defaults, after the mount effect pre-filled the centre
\* of the custom grid (a set of 0-based cell indices)
\* GameSetup's form state after the mount effect.  customGrid is the set of
\* indices whose entry is true; closure is the render handleStart last ran in,
\* passed the arguments of its onStartGame call.
InitialDialog ==
    [hostName |-> "Host", mode |-> "STANDARD", themeInput |-> "", patternType |-> "STANDARD",
     customGrid |-> {12}, error |-> "", isLoading |-> FALSE, closure |-> <<>>, passed |-> <<>>]

Init ==
    /\ InitSession
    /\ dialog = InitialDialog
    /\ calc = [fn |-> "none"]

\* ------------------------------------------------------------- host: render
AvailableItems(gs) == SelectSeq(gs.allItems, LAMBDA item : ~Includes(gs.calledItems, item))

\* the auto-call effect of a render: it arms a timeout when auto-calling is on,
\* no bingo is being confirmed and an item is left to call
AutoCallArmed(gs, auto, confirming) ==
    auto /\ confirming = NoCard /\ AvailableItems(gs) # <<>>

\* ... and switches auto-calling off when no item is left
AutoCallOn(gs, auto, confirming) ==
    auto /\ ~(confirming = NoCard /\ AvailableItems(gs) = <<>>)

\* A render commits the queued updates: the hasBingo effect recomputes the
\* flags, the sync effect stores the state in gameStateRef and the auto-call
\* effect replaces its timeout.
Committed(gs, auto, confirming) ==
    /\ gameState' = Rendered(gs)
    /\ gameStateRef' = Rendered(gs)
    /\ hostConfirming' = confirming
    /\ isAutoCalling' = AutoCallOn(gs, auto, confirming)
    /\ rendered' = [isAutoCalling |-> AutoCallOn(gs, auto, confirming),
                    confirmingBingoCardId |-> confirming]
    /\ autoCallTimer' = AutoCallArmed(gs, auto, confirming)

\* the render React schedules after a handler that ran outside a UI event
Render ==
    /\ \/ gameStateRef # Rendered(gameState)
       \/ rendered # [isAutoCalling |-> isAutoCalling, confirmingBingoCardId |-> hostConfirming]
    /\ Committed(gameState, isAutoCalling, hostConfirming)
    /\ UNCHANGED <<utilVars, setup, chatMessages, connectionsRef, now, rounds, claims, client, connOpen, toHost, toClient, lastOp>>

\* ------------------------------------------------- host: conn.on('data')
SmallestUnused(cards) ==
    SeqMin({n \in 0..Len(cards) : n \notin OwnerIndices(cards)})

SameName(a, b) == toLowerCase(a) = toLowerCase(b)

WelcomeMsg(cur, targetIndex, playerName, cardsToSend) ==
    [type |-> "WELCOME", playerIndex |-> targetIndex, playerName |-> playerName,
     cards |-> cardsToSend, currentCall |-> cur.currentCall,
     calledItems |-> cur.calledItems, winPatterns |-> cur.winPatterns]

\* JOIN_REQUEST from a name that has cards in the snapshot
JoinExisting(conn) ==
    /\ toHost[conn] # <<>>
    /\ Head(toHost[conn]).type = "JOIN_REQUEST"
    /\ LET playerName == Head(toHost[conn]).playerName
           currentGameState == gameStateRef
           found == FindIndex(currentGameState.cards, LAMBDA k : SameName(k.playerName, playerName))
       IN /\ found # 0
          /\ LET targetIndex == currentGameState.cards[found].ownerIndex
                 cardsToSend == SelectSeq(currentGameState.cards, LAMBDA k : k.ownerIndex = targetIndex)
             IN /\ toClient' = [toClient EXCEPT ![conn] =
                        Append(@, WelcomeMsg(currentGameState, targetIndex, playerName, cardsToSend))]
                /\ lastOp' = [op |-> "joinExisting"]
    /\ connectionsRef' = Append(connectionsRef, conn)
    /\ toHost' = [toHost EXCEPT ![conn] = Tail(@)]
    /\ UNCHANGED <<utilVars, gameState, gameStateRef, hostVars, now, rounds, claims, client, connOpen>>

\* JOIN_REQUEST from a name without cards in the snapshot: a new owner index
\* and four generated cards; Date.now() reads `time`
JoinNew(conn, time, r) ==
    /\ toHost[conn] # <<>>
    /\ Head(toHost[conn]).type = "JOIN_REQUEST"
    /\ LET playerName == Head(toHost[conn]).playerName
           currentGameState == gameStateRef
           found == FindIndex(currentGameState.cards, LAMBDA k : SameName(k.playerName, playerName))
       IN /\ found = 0
          /\ LET targetIndex == SmallestUnused(currentGameState.cards)
                 cardsToSend == generateCards(currentGameState.allItems, currentGameState.mode,
                                              playerName, targetIndex, time, r)
             IN /\ gameState' = [gameState EXCEPT !.cards = @ \o cardsToSend]
                /\ toClient' = [toClient EXCEPT ![conn] =
                        Append(@, WelcomeMsg(currentGameState, targetIndex, playerName, cardsToSend))]
                /\ lastOp' = [op |-> "joinNew"]
    /\ now' = time
    /\ connectionsRef' = Append(connectionsRef, conn)
    /\ toHost' = [toHost EXCEPT ![conn] = Tail(@)]
    /\ UNCHANGED <<utilVars, gameStateRef, hostVars, rounds, claims, client, connOpen>>

\* announceWinner(playerName, cardId, playerIndex): TRUE iff it records
AnnounceRecords(cardId) == ~Includes(gameStateRef.winnerIds, cardId)

AnnouncedState(cardId) == [gameState EXCEPT !.winnerIds = Append(@, cardId)]

AnnouncedMsg(cardId, playerIndex) ==
    [type |-> "BINGO_ANNOUNCED", playerIndex |-> playerIndex, cardId |-> cardId]

\* marks rebuilt from the snapshot's calledItems and the free space
VerifiedCells(card, calledItems) ==
    [n \in 1..Len(card.cells) |->
        [card.cells[n] EXCEPT !.marked = card.cells[n].isFreeSpace
                                         \/ Includes(calledItems, card.cells[n].value)]]

\* mutant: the pattern check on the rebuilt marks is dropped
ClaimVerdict_Unverified(cardId) ==
    LET currentGameState == gameStateRef
        found == FindIndex(currentGameState.cards, LAMBDA k : k.id = cardId)
    IN IF found = 0 THEN "unknown"
       ELSE IF Includes(currentGameState.winnerIds, cardId) THEN "duplicate"
       ELSE "announced"

ClaimVerdict(cardId) ==
    LET currentGameState == gameStateRef
        found == FindIndex(currentGameState.cards, LAMBDA k : k.id = cardId)
    IN IF found = 0 THEN "unknown"
       ELSE IF ~checkPatternMatch(VerifiedCells(currentGameState.cards[found],
                                                currentGameState.calledItems),
                                  currentGameState.winPatterns) THEN "false"
       ELSE IF Includes(currentGameState.winnerIds, cardId) THEN "duplicate"
       ELSE IF AnnounceRecords(cardId) THEN "announced" ELSE "duplicate"

ClaimBingo(conn) ==
    /\ toHost[conn] # <<>>
    /\ Head(toHost[conn]).type = "CLAIM_BINGO"
    /\ LET cardId == Head(toHost[conn]).cardId
           playerIndex == Head(toHost[conn]).playerIndex
           verdict == ClaimVerdict(cardId)
       IN /\ IF verdict = "announced"
             THEN /\ gameState' = AnnouncedState(cardId)
                  /\ isAutoCalling' = FALSE
                  /\ toClient' = Broadcast(toClient, AnnouncedMsg(cardId, playerIndex))
             ELSE UNCHANGED <<gameState, isAutoCalling, toClient>>
          /\ lastOp' = [op |-> "claimBingo", verdict |-> verdict]
    /\ toHost' = [toHost EXCEPT ![conn] = Tail(@)]
    /\ UNCHANGED <<utilVars, gameStateRef, connectionsRef, hostConfirming, rendered, autoCallTimer,
                   setup, chatMessages, now, rounds, claims, client, connOpen>>

\* messages a peer can put on an open channel that the protocol gives no
\* meaning to: a tag outside the vocabulary, and a claim for a card id that no
\* generateCards call of the session produces
ForeignMessages ==
    {[type |-> "PING"],
     [type |-> "CLAIM_BINGO", cardId |-> CardId(9, 0, 0), playerIndex |-> 9]}

\* the peer behind an open channel sends such a message to the host
ForeignToHost(conn, msg) ==
    /\ connOpen[conn]
    /\ Cardinality({i \in 1..Len(toHost[conn]) : toHost[conn][i] \in ForeignMessages}) < MaxForeign
    /\ toHost' = [toHost EXCEPT ![conn] = Append(@, msg)]
    /\ UNCHANGED <<utilVars, gameState, gameStateRef, connectionsRef, hostVars, now, rounds, claims,
                   client, connOpen, toClient, lastOp>>

\* ... and a player's channel delivers one
ForeignToClient(conn, msg) ==
    /\ connOpen[conn]
    /\ Cardinality({i \in 1..Len(toClient[conn]) : toClient[conn][i] \in ForeignMessages}) < MaxForeign
    /\ toClient' = [toClient EXCEPT ![conn] = Append(@, msg)]
    /\ UNCHANGED <<utilVars, gameState, gameStateRef, connectionsRef, hostVars, now, rounds, claims,
                   client, connOpen, toHost, lastOp>>

\* the handler answers a message it has no branch for
HostIgnores_Echo(conn) ==
    /\ toHost[conn] # <<>>
    /\ Head(toHost[conn]).type \notin {"JOIN_REQUEST", "CLAIM_BINGO", "CHAT_MESSAGE"}
    /\ toHost' = [toHost EXCEPT ![conn] = Tail(@)]
    /\ toClient' = [toClient EXCEPT ![conn] = Append(@, Head(toHost[conn]))]
    /\ lastOp' = [op |-> "ignored"]
    /\ UNCHANGED <<utilVars, gameState, gameStateRef, connectionsRef, hostVars, now, rounds, claims,
                   client, connOpen>>

\* conn.on('data') with a tag none of the branches tests for: the if / else if
\* chain falls through
HostIgnores(conn) ==
    /\ toHost[conn] # <<>>
    /\ Head(toHost[conn]).type \notin {"JOIN_REQUEST", "CLAIM_BINGO", "CHAT_MESSAGE"}
    /\ toHost' = [toHost EXCEPT ![conn] = Tail(@)]
    /\ lastOp' = [op |-> "ignored"]
    /\ UNCHANGED <<utilVars, gameState, gameStateRef, connectionsRef, hostVars, now, rounds, claims,
                   client, connOpen, toClient>>

\* --------------------------------------------------- host: operator's actions
\* Each runs in the closure of the last render (gameStateRef, rendered) and is
\* followed by React's synchronous render, which commits every queued update.
MarkCalled(cards, nextItem) ==
    [i \in 1..Len(cards) |->
        [cards[i] EXCEPT !.cells = [n \in 1..Len(cards[i].cells) |->
            IF cards[i].cells[n].value = nextItem
            THEN [cards[i].cells[n] EXCEPT !.marked = TRUE]
            ELSE cards[i].cells[n]]]]

CalledState(prev, nextItem) ==
    [prev EXCEPT !.cards = MarkCalled(prev.cards, nextItem),
                 !.calledItems = <<nextItem>> \o prev.calledItems,
                 !.currentCall = nextItem]

\* the item callNextNumber() picks in the closure of the last render
NextItem(r) ==
    LET availableItems == AvailableItems(gameStateRef)
    IN availableItems[RandomInt(r, Len(availableItems)) + 1]

\* the Next button, disabled while auto-calling
callNextNumber(r) ==
    /\ ~rendered.isAutoCalling
    /\ Len(AvailableItems(gameStateRef)) # 0
    /\ Committed(CalledState(gameState, NextItem(r)), isAutoCalling, hostConfirming)
    /\ toClient' = Broadcast(toClient, [type |-> "NEXT_CALL", payload |-> NextItem(r)])
    /\ lastOp' = [op |-> "callNext"]
    /\ UNCHANGED <<utilVars, setup, chatMessages, connectionsRef, now, rounds, claims, client, connOpen, toHost>>

\* the auto-call timeout fires: callNextNumber() outside a UI event, so the
\* render follows later
AutoCall(r) ==
    /\ autoCallTimer
    /\ Len(AvailableItems(gameStateRef)) # 0
    /\ gameState' = CalledState(gameState, NextItem(r))
    /\ autoCallTimer' = FALSE
    /\ toClient' = Broadcast(toClient, [type |-> "NEXT_CALL", payload |-> NextItem(r)])
    /\ lastOp' = [op |-> "callNext"]
    /\ UNCHANGED <<utilVars, gameStateRef, connectionsRef, hostConfirming, isAutoCalling, rendered,
                   setup, chatMessages, now, rounds, claims, client, connOpen, toHost>>

\* the play / pause button
ToggleAutoCalling ==
    /\ Committed(gameState, ~rendered.isAutoCalling, hostConfirming)
    /\ UNCHANGED <<utilVars, setup, chatMessages, connectionsRef, now, rounds, claims, client, connOpen, toHost, toClient, lastOp>>

\* handleCellClick(cardId, cellId) on a list of cards
ToggleCellIn(cards, cardId, cellId) ==
    [i \in 1..Len(cards) |->
        IF cards[i].id # cardId THEN cards[i]
        ELSE [cards[i] EXCEPT !.cells = [n \in 1..Len(cards[i].cells) |->
                IF CellId(cards[i], n) # cellId THEN cards[i].cells[n]
                ELSE [cards[i].cells[n] EXCEPT !.marked = ~@]]]]

\* the boards the operator sees are the host player's (owner index 0)
HostCellClick ==
    /\ \E i \in 1..Len(gameStateRef.cards), n \in 1..(GridSize * GridSize) :
        /\ gameStateRef.cards[i].ownerIndex = 0
        /\ gameStateRef.cards[i].cardIndex \in ToggleCards
        /\ (n - 1) \in ToggleCells
        /\ Committed([gameState EXCEPT !.cards =
                        ToggleCellIn(@, gameStateRef.cards[i].id, CellId(gameStateRef.cards[i], n))],
                     isAutoCalling, hostConfirming)
    /\ UNCHANGED <<utilVars, setup, chatMessages, connectionsRef, now, rounds, claims, client, connOpen, toHost, toClient, lastOp>>

hostWinningCard ==
    FindIndex(gameStateRef.cards,
              LAMBDA k : k.ownerIndex = 0 /\ k.hasBingo /\ ~Includes(gameStateRef.winnerIds, k.id))

\* the HOST BINGO! button
HostInitiateBingo ==
    /\ hostWinningCard # 0
    /\ rendered.confirmingBingoCardId = NoCard
    /\ Committed(gameState, isAutoCalling, gameStateRef.cards[hostWinningCard].id)
    /\ UNCHANGED <<utilVars, setup, chatMessages, connectionsRef, now, rounds, claims, client, connOpen, toHost, toClient, lastOp>>

\* the dialog's Cancel button
HostCancelBingo ==
    /\ rendered.confirmingBingoCardId # NoCard
    /\ Committed(gameState, isAutoCalling, NoCard)
    /\ UNCHANGED <<utilVars, setup, chatMessages, connectionsRef, now, rounds, claims, client, connOpen, toHost, toClient, lastOp>>

handleHostClaimBingo ==
    /\ rendered.confirmingBingoCardId # NoCard
    /\ LET confirmingBingoCardId == rendered.confirmingBingoCardId
           found == FindIndex(gameStateRef.cards, LAMBDA k : k.id = confirmingBingoCardId)
       IN IF found # 0 /\ gameStateRef.cards[found].hasBingo /\ AnnounceRecords(confirmingBingoCardId)
          THEN /\ Committed(AnnouncedState(confirmingBingoCardId), FALSE, NoCard)
               /\ toClient' = Broadcast(toClient,
                      AnnouncedMsg(confirmingBingoCardId, gameStateRef.cards[found].ownerIndex))
               /\ lastOp' = [op |-> "hostClaimBingo", recorded |-> TRUE]
          ELSE /\ Committed(gameState, isAutoCalling, NoCard)
               /\ toClient' = toClient
               /\ lastOp' = [op |-> "hostClaimBingo", recorded |-> FALSE]
    /\ UNCHANGED <<utilVars, setup, chatMessages, connectionsRef, now, rounds, claims, client, connOpen, toHost>>

\* Array.from(new Set(cards.map(c => c.ownerIndex))): first occurrences, in order
UniqueOwnerPositions(cards) ==
    SelectSeq([i \in 1..Len(cards) |-> i],
              LAMBDA i : \A j \in 1..(i - 1) : cards[j].ownerIndex # cards[i].ownerIndex)

RECURSIVE Flatten(_)
Flatten(seqs) == IF seqs = <<>> THEN <<>> ELSE Head(seqs) \o Flatten(Tail(seqs))

RoundCards(currentCards, cfg, time, r) ==
    LET uniquePlayers == UniqueOwnerPositions(currentCards) IN
    Flatten([u \in 1..Len(uniquePlayers) |->
        LET idx == currentCards[uniquePlayers[u]].ownerIndex
            name == IF idx = 0 THEN cfg.hostName
                    ELSE currentCards[uniquePlayers[u]].playerName
        IN generateCards(cfg.items, cfg.mode, name, idx, time, r)])

\* the state startNewRound(mode, items, ..., winPatterns) sets, from the
\* cards of the closure it runs in
startNewRound(currentCards, cfg, time, r) ==
    NewGameState(cfg, RoundCards(currentCards, cfg, time, r))

\* GameSetup.handleStart, the dialog's start button.  STANDARD: onStartGame
\* runs inside the click.  THEMED: the click starts the theme request and
\* onStartGame, taken from the render of the click, runs when it resolves.
handleStart(cfg, r) ==
    /\ setup = NoSetup
    /\ rounds < MaxRounds
    /\ IF cfg.mode = "STANDARD"
       THEN /\ Committed(startNewRound(gameStateRef.cards, cfg, now + 1, r), FALSE, NoCard)
            /\ toClient' = Broadcast(toClient, [type |-> "GAME_RESET"])
            /\ lastOp' = [op |-> "startNewRound"]
            /\ now' = now + 1
            /\ rounds' = rounds + 1
            /\ setup' = NoSetup
       ELSE /\ Committed(gameState, isAutoCalling, hostConfirming)
            /\ setup' = [cfg |-> cfg, currentCards |-> gameStateRef.cards]
            /\ UNCHANGED <<toClient, lastOp, now, rounds>>
    /\ UNCHANGED <<utilVars, connectionsRef, chatMessages, claims, client, connOpen, toHost>>

\* the theme request resolves: onStartGame('THEMED', items, ...) runs outside
\* a UI event, so the render follows later
onStartGame(r) ==
    /\ setup # NoSetup
    /\ gameState' = startNewRound(setup.currentCards, setup.cfg, now + 1, r)
    /\ isAutoCalling' = FALSE
    /\ hostConfirming' = NoCard
    /\ setup' = NoSetup
    /\ toClient' = Broadcast(toClient, [type |-> "GAME_RESET"])
    /\ lastOp' = [op |-> "startNewRound"]
    /\ now' = now + 1
    /\ rounds' = rounds + 1
    /\ UNCHANGED <<utilVars, gameStateRef, rendered, autoCallTimer, connectionsRef, chatMessages, claims, client,
                   connOpen, toHost>>

\* the theme request fails: the dialog shows the error and no round starts
handleStartFailed ==
    /\ setup # NoSetup
    /\ setup' = NoSetup
    /\ UNCHANGED <<utilVars, gameState, gameStateRef, hostConfirming, isAutoCalling, rendered, autoCallTimer,
                   connectionsRef, chatMessages, now, rounds, claims, client, connOpen, toHost,
                   toClient, lastOp>>

\* ------------------------------------------------------------ player client
\* connectToRoom: the form's Connect button.  The form is shown while the
\* status is not CONNECTED and the button is disabled while it is CONNECTING.
\* A retry is made under the name typed for the first attempt.
connectToRoom(c, typed) ==
    /\ client[c].status \notin {"CONNECTING", "CONNECTED"}
    /\ client[c].attempts < MaxAttempts
    /\ trim(typed) # ""
    /\ client[c].attempts > 0 => typed = client[c].playerName
    /\ LET g == client[c].attempts + 1 IN
        client' = [client EXCEPT ![c].status = "CONNECTING",
                                 ![c].playerName = typed,
                                 ![c].attempts = g,
                                 ![c].stage[g] = "peer",
                                 ![c].closure[g] = client[c].status]
    /\ UNCHANGED <<utilVars, gameState, gameStateRef, connectionsRef, hostVars, now, rounds, claims,
                   connOpen, toHost, toClient, lastOp>>

\* peer.on('open'): the connection is created and stored in connRef.current,
\* and the timeout of the attempt starts
PeerOpen(c, g) ==
    /\ client[c].stage[g] = "peer"
    /\ client' = [client EXCEPT ![c].stage[g] = "conn",
                                ![c].connRef = g,
                                ![c].timer[g] = TRUE]
    /\ UNCHANGED <<utilVars, gameState, gameStateRef, connectionsRef, hostVars, now, rounds, claims,
                   connOpen, toHost, toClient, lastOp>>

\* the timeout of an attempt fires before its channel opened; `status` is the
\* one its closure captured when the button was pressed
ConnectTimeout(c, g) ==
    /\ client[c].timer[g]
    /\ client' = [client EXCEPT
            ![c].timer[g] = FALSE,
            ![c].status = IF client[c].closure[g] \notin {"CONNECTED", "WAITING_FOR_HOST", "ERROR"}
                          THEN "ERROR" ELSE @]
    /\ UNCHANGED <<utilVars, gameState, gameStateRef, connectionsRef, hostVars, now, rounds, claims,
                   connOpen, toHost, toClient, lastOp>>

\* conn.on('open'): JOIN_REQUEST carries cleanName
ConnOpen(k) ==
    LET c == k[1]
        g == k[2]
    IN /\ client[c].stage[g] = "conn"
       /\ connOpen' = [connOpen EXCEPT ![k] = TRUE]
       /\ client' = [client EXCEPT ![c].stage[g] = "open",
                                   ![c].timer[g] = FALSE,
                                   ![c].status = "WAITING_FOR_HOST",
                                   ![c].joins = @ + 1]
       /\ toHost' = [toHost EXCEPT ![k] =
               Append(@, [type |-> "JOIN_REQUEST", playerName |-> trim(client[c].playerName)])]
       /\ UNCHANGED <<utilVars, gameState, gameStateRef, connectionsRef, hostVars, now, rounds, claims,
                      toClient, lastOp>>

\* conn.on('close'): the channel is gone with whatever was in flight on it;
\* the host has no handler for it
ConnClose(k) ==
    LET c == k[1]
        g == k[2]
    IN /\ client[c].stage[g] = "open"
       /\ connOpen' = [connOpen EXCEPT ![k] = FALSE]
       /\ toHost' = [toHost EXCEPT ![k] = <<>>]
       /\ toClient' = [toClient EXCEPT ![k] = <<>>]
       /\ client' = [client EXCEPT ![c].stage[g] = "closed", ![c].status = "ERROR"]
       /\ UNCHANGED <<utilVars, gameState, gameStateRef, connectionsRef, hostVars, now, rounds, claims, lastOp>>

\* connRef.current.send(msg): the message travels when that connection is
\* open; otherwise it is dropped and the connection's 'error' handler runs
CanSend(cl) == cl.connRef # 0 /\ cl.stage[cl.connRef] = "open"

SentOnRef(c, msg) ==
    IF CanSend(client[c])
    THEN [toHost EXCEPT ![<<c, client[c].connRef>>] = Append(@, msg)]
    ELSE toHost

AfterSend(cl) == IF CanSend(cl) THEN cl ELSE [cl EXCEPT !.status = "ERROR"]

\* hasBingo read from the card's cells as they were before the mark
updateCardsWithMark_BeforeMark(cards, itemToMark, winPatterns) ==
    [i \in 1..Len(cards) |->
        LET updatedCells == [n \in 1..Len(cards[i].cells) |->
                IF cards[i].cells[n].value = itemToMark
                THEN [cards[i].cells[n] EXCEPT !.marked = TRUE]
                ELSE cards[i].cells[n]]
        IN [cards[i] EXCEPT !.cells = updatedCells,
                            !.hasBingo = checkPatternMatch(cards[i].cells, winPatterns)]]

\* updateCardsWithMark(itemToMark) with the render's winPatterns
updateCardsWithMark(cards, itemToMark, winPatterns) ==
    [i \in 1..Len(cards) |->
        LET updatedCells == [n \in 1..Len(cards[i].cells) |->
                IF cards[i].cells[n].value = itemToMark
                THEN [cards[i].cells[n] EXCEPT !.marked = TRUE]
                ELSE cards[i].cells[n]]
        IN [cards[i] EXCEPT !.cells = updatedCells,
                            !.hasBingo = checkPatternMatch(updatedCells, winPatterns)]]

\* the auto-mark effect, run after a render in which currentCall, isAutoMark
\* or winPatterns changed
AutoMarked(cl, depsChanged) ==
    IF depsChanged /\ cl.isAutoMark /\ cl.currentCall # NoCall
    THEN [cl EXCEPT !.cards = updateCardsWithMark(cl.cards, cl.currentCall, cl.winPatterns)]
    ELSE cl

\* handleMessage(msg), then the render and its effect
OnWelcome(cl, msg) ==
    AutoMarked([cl EXCEPT !.cards = msg.cards,
                          !.playerIndex = msg.playerIndex,
                          !.calledItems = msg.calledItems,
                          !.winPatterns = msg.winPatterns,
                          !.currentCall = IF msg.currentCall # NoCall THEN msg.currentCall ELSE @,
                          !.status = "CONNECTED"],
               TRUE)

OnNewGame(cl, msg) ==
    AutoMarked([cl EXCEPT !.cards = msg.cards,
                          !.calledItems = <<>>,
                          !.winPatterns = msg.winPatterns,
                          !.currentCall = NoCall,
                          !.announcedWinners = <<>>,
                          !.confirmingBingoCardId = NoCard],
               TRUE)

OnNextCall(cl, msg) ==
    AutoMarked([cl EXCEPT !.currentCall = msg.payload,
                          !.calledItems = <<msg.payload>> \o @],
               cl.currentCall # msg.payload)

OnBingoAnnounced(cl, msg) == [cl EXCEPT !.announcedWinners = Append(@, msg.cardId)]

\* GAME_RESET with connRef.current set and a name typed
OnGameReset(cl) ==
    AfterSend([cl EXCEPT !.cards = <<>>, !.currentCall = NoCall, !.announcedWinners = <<>>,
                         !.confirmingBingoCardId = NoCard,
                         !.joins = IF CanSend(cl) THEN @ + 1 ELSE @])

OnChatMessage(cl, msg) == [cl EXCEPT !.chatMessages = Append(@, msg.payload)]

\* conn.on('data') of a connection of player k[1]
ClientReceive(k) ==
    LET c == k[1] IN
    /\ toClient[k] # <<>>
    /\ LET msg == Head(toClient[k])
           rejoins == msg.type = "GAME_RESET" /\ client[c].connRef # 0 /\ client[c].playerName # ""
       IN
        /\ client' = [client EXCEPT ![c] =
                CASE msg.type = "WELCOME" -> OnWelcome(@, msg)
                  [] msg.type = "NEW_GAME" -> OnNewGame(@, msg)
                  [] msg.type = "NEXT_CALL" -> OnNextCall(@, msg)
                  [] msg.type = "BINGO_ANNOUNCED" -> OnBingoAnnounced(@, msg)
                  [] msg.type = "CHAT_MESSAGE" -> OnChatMessage(@, msg)
                  [] msg.type = "GAME_RESET" -> IF rejoins THEN OnGameReset(@) ELSE @
                  [] OTHER -> @]
        /\ toHost' = IF rejoins
                     THEN SentOnRef(c, [type |-> "JOIN_REQUEST", playerName |-> client[c].playerName])
                     ELSE toHost
    /\ toClient' = [toClient EXCEPT ![k] = Tail(@)]
    /\ UNCHANGED <<utilVars, gameState, gameStateRef, connectionsRef, hostVars, now, rounds, claims, connOpen, lastOp>>

\* handleCellClick(cardId, cellId) on the player's own boards
ClientToggled(cards, cardId, cellId, winPatterns) ==
    [i \in 1..Len(cards) |->
        IF cards[i].id # cardId THEN cards[i]
        ELSE LET updatedCells == [n \in 1..Len(cards[i].cells) |->
                    IF CellId(cards[i], n) # cellId THEN cards[i].cells[n]
                    ELSE [cards[i].cells[n] EXCEPT !.marked = ~@]]
             IN [cards[i] EXCEPT !.cells = updatedCells,
                                 !.hasBingo = checkPatternMatch(updatedCells, winPatterns)]]

\* a tap on a cell; the confirm dialog's overlay covers the boards
ClientCellClick(c) ==
    /\ client[c].status = "CONNECTED"
    /\ client[c].confirmingBingoCardId = NoCard
    /\ \E i \in 1..Len(client[c].cards), n \in 1..(GridSize * GridSize) :
        /\ client[c].cards[i].cardIndex \in ToggleCards
        /\ (n - 1) \in ToggleCells
        /\ client' = [client EXCEPT ![c].cards =
                ClientToggled(@, client[c].cards[i].id, CellId(client[c].cards[i], n),
                              client[c].winPatterns)]
    /\ UNCHANGED <<utilVars, gameState, gameStateRef, connectionsRef, hostVars, now, rounds, claims,
                   connOpen, toHost, toClient, lastOp>>

\* the AUTO / MANUAL button, then the render and the auto-mark effect
ToggleAutoMark(c) ==
    /\ client[c].status = "CONNECTED"
    /\ client[c].confirmingBingoCardId = NoCard
    /\ client' = [client EXCEPT ![c] = AutoMarked([@ EXCEPT !.isAutoMark = ~@], TRUE)]
    /\ UNCHANGED <<utilVars, gameState, gameStateRef, connectionsRef, hostVars, now, rounds, claims,
                   connOpen, toHost, toClient, lastOp>>

winningCard(cl) ==
    FindIndex(cl.cards, LAMBDA k : k.hasBingo /\ ~Includes(cl.announcedWinners, k.id))

initiateBingoCall(c) ==
    /\ client[c].status = "CONNECTED"
    /\ winningCard(client[c]) # 0
    /\ client[c].confirmingBingoCardId = NoCard
    /\ client' = [client EXCEPT ![c].confirmingBingoCardId =
                    client[c].cards[winningCard(client[c])].id]
    /\ UNCHANGED <<utilVars, gameState, gameStateRef, connectionsRef, hostVars, now, rounds, claims,
                   connOpen, toHost, toClient, lastOp>>

cancelBingo(c) ==
    /\ client[c].status = "CONNECTED"
    /\ client[c].confirmingBingoCardId # NoCard
    /\ client' = [client EXCEPT ![c].confirmingBingoCardId = NoCard]
    /\ UNCHANGED <<utilVars, gameState, gameStateRef, connectionsRef, hostVars, now, rounds, claims,
                   connOpen, toHost, toClient, lastOp>>

confirmBingo(c) ==
    /\ client[c].status = "CONNECTED"
    /\ client[c].confirmingBingoCardId # NoCard
    /\ client[c].connRef # 0
    /\ claims < MaxClaims
    /\ claims' = claims + 1
    /\ toHost' = SentOnRef(c, [type |-> "CLAIM_BINGO", cardId |-> client[c].confirmingBingoCardId,
                               playerIndex |-> client[c].playerIndex])
    /\ client' = [client EXCEPT ![c] = AfterSend([@ EXCEPT !.confirmingBingoCardId = NoCard])]
    /\ UNCHANGED <<utilVars, gameState, gameStateRef, connectionsRef, hostVars, now, rounds,
                   connOpen, toClient, lastOp>>

\* ------------------------------------------------------------------- chat
\* what a player or the operator types into the chat box
ChatTexts == {"hi"}

ChatPayload(sender, text) == [sender |-> sender, text |-> text]

\* PlayerClient.handleSendChat(text)
ClientSendChat(c, text) ==
    /\ client[c].status = "CONNECTED"
    /\ LET msg == ChatPayload(client[c].playerName, text) IN
        /\ client' = [client EXCEPT ![c] = AfterSend([@ EXCEPT !.chatMessages = Append(@, msg)])]
        /\ toHost' = IF client[c].connRef # 0
                     THEN SentOnRef(c, [type |-> "CHAT_MESSAGE", payload |-> msg])
                     ELSE toHost
    /\ UNCHANGED <<utilVars, gameState, gameStateRef, connectionsRef, hostVars, now, rounds, claims,
                   connOpen, toClient, lastOp>>

\* host, CHAT_MESSAGE from connection k, sent on every registered open
\* connection, the sender's included
RelayChat_Echo(k) ==
    /\ toHost[k] # <<>>
    /\ Head(toHost[k]).type = "CHAT_MESSAGE"
    /\ chatMessages' = Append(chatMessages, Head(toHost[k]).payload)
    /\ toClient' = [j \in Conns |->
            IF connOpen[j]
            THEN toClient[j] \o [i \in 1..Count(connectionsRef, j) |-> Head(toHost[k])]
            ELSE toClient[j]]
    /\ toHost' = [toHost EXCEPT ![k] = Tail(@)]
    /\ lastOp' = [op |-> "relayChat"]
    /\ UNCHANGED <<utilVars, gameState, gameStateRef, connectionsRef, hostConfirming, isAutoCalling,
                   rendered, autoCallTimer, setup, now, rounds, claims, client, connOpen>>

\* host, CHAT_MESSAGE from connection k: stored, and sent on every registered
\* open connection whose peer is not the sender's
RelayChat(k) ==
    /\ toHost[k] # <<>>
    /\ Head(toHost[k]).type = "CHAT_MESSAGE"
    /\ chatMessages' = Append(chatMessages, Head(toHost[k]).payload)
    /\ toClient' = [j \in Conns |->
            IF connOpen[j] /\ j # k
            THEN toClient[j] \o [i \in 1..Count(connectionsRef, j) |-> Head(toHost[k])]
            ELSE toClient[j]]
    /\ toHost' = [toHost EXCEPT ![k] = Tail(@)]
    /\ lastOp' = [op |-> "relayChat"]
    /\ UNCHANGED <<utilVars, gameState, gameStateRef, connectionsRef, hostConfirming, isAutoCalling,
                   rendered, autoCallTimer, setup, now, rounds, claims, client, connOpen>>

\* ActiveGame.handleSendChat(text), from the operator's chat box
HostSendChat(text) ==
    /\ chatMessages' = Append(chatMessages, ChatPayload("HOST", text))
    /\ toClient' = Broadcast(toClient, [type |-> "CHAT_MESSAGE", payload |-> ChatPayload("HOST", text)])
    /\ Committed(gameState, isAutoCalling, hostConfirming)
    /\ lastOp' = [op |-> "hostChat"]
    /\ UNCHANGED <<utilVars, setup, connectionsRef, now, rounds, claims, client, connOpen, toHost>>

\* ------------------------------------------- gameUtils.ts under evaluation
\* A call of generateCards evaluated on its own.  The Fisher-Yates loop of one
\* STANDARD column (card calc.card of the first name, column calc.col) is run
\* step by step with a fresh Math.random() reading per iteration; every other
\* shuffle of the call reads calc.r / RandDen throughout.

\* STANDARD cells from the five shuffled columns, row-major
StandardCellsFrom(colNumbers) ==
    [n \in 1..(GridSize * GridSize) |->
        LET i == n - 1
            row == i \div GridSize
            col == i % GridSize
        IN [value |-> IF IsFree(i) THEN FreeValue ELSE colNumbers[col + 1][row + 1],
            marked |-> FALSE,
            isFreeSpace |-> IsFree(i)]]

\* generateCards(items, themeMode, playerNames, startIndex) at clock reading
\* `time`; cellsOf[idx][cardIdx] is the layout the branch built for that card
generateCardsAll(playerNames, startIndex, time, cellsOf) ==
    Flatten([idx \in 1..Len(playerNames) |->
        [k \in 1..CardsPerPlayer |->
            [id |-> CardId(startIndex + idx - 1, k - 1, time),
             ownerIndex |-> startIndex + idx - 1,
             cardIndex |-> k - 1,
             playerName |-> playerNames[idx],
             cells |-> cellsOf[idx][k - 1],
             hasBingo |-> FALSE]]])

\* an item pool of n values
ThemedPool(n) == Range(101, 100 + n)

\* (playerNames, startIndex, card whose column is stepped, fixed reading)
CallShapes ==
    { [playerNames |-> <<"Ann">>, startIndex |-> 1, card |-> 0, r |-> 0],
      [playerNames |-> <<"Host", "Ann">>, startIndex |-> 0, card |-> CardsPerPlayer - 1,
       r |-> RandDen - 1] }

\* generateThemedItems once the model's reply is parsed: a reply of fewer than
\* 24 items is tripled, cut at 60 and re-labelled `${i} ${idx}`, a new string
\* made of the item and its position; no length is rejected
generateThemedItems(reply) ==
    IF Len(reply) < ThemedItemCount
    THEN [n \in 1..(IF 3 * Len(reply) < 60 THEN 3 * Len(reply) ELSE 60) |->
             1000 * n + reply[((n - 1) % Len(reply)) + 1]]
    ELSE reply

\* item pools handed to generateCards: given directly, or as produced by
\* generateThemedItems from a reply of that size
ThemedPools ==
    LET sizes == {3, 20, 24, 30} IN
    {ThemedPool(n) : n \in sizes} \cup {generateThemedItems(ThemedPool(n)) : n \in sizes}

\* the STANDARD columns under a fixed reading, tabulated
StandardColumns ==
    [c \in 0..(GridSize - 1) |-> [r \in Rand |-> StandardColumn(c, r)]]

\* the calls evaluated: STANDARD with `possible` of the stepped column as
\* Array.from(...) built it, THEMED on each pool
InitCards ==
    LET Call(shape, themeMode, items, col, possible) ==
            [fn |-> "generateCards", themeMode |-> themeMode, items |-> items,
             playerNames |-> shape.playerNames, startIndex |-> shape.startIndex, time |-> 0,
             r |-> shape.r, card |-> shape.card, col |-> col,
             possible |-> possible, j |-> IF possible = <<>> THEN 0 ELSE Len(possible) - 1,
             cards |-> <<>>, returned |-> FALSE]
    IN /\ InitSession
       /\ dialog = InitialDialog
       /\ calc \in {Call(shape, "STANDARD", Range(1, 75), col,
                         Range(ColumnSpan * col + 1, ColumnSpan * col + ColumnSpan)) :
                        shape \in CallShapes, col \in 0..(GridSize - 1)}
                   \cup {Call(shape, "THEMED", pool, 0, <<>>) : shape \in CallShapes, pool \in ThemedPools}

\* one iteration of `for (let j = possible.length - 1; j > 0; j--)`
ShuffleStep(r) ==
    /\ calc.fn = "generateCards"
    /\ calc.themeMode = "STANDARD"
    /\ ~calc.returned
    /\ calc.j > 0
    /\ calc' = [calc EXCEPT !.possible = Swap(@, calc.j + 1, RandomInt(r, calc.j + 1) + 1),
                            !.j = @ - 1]
    /\ UNCHANGED <<sessionVars, dialog>>

\* `return cards`: the column stepped above sits in its card, every other
\* layout is the one of the fixed reading
GenerateReturn ==
    LET cellsOf ==
            [idx \in 1..Len(calc.playerNames) |->
                [cardIdx \in 0..(CardsPerPlayer - 1) |->
                    IF calc.themeMode = "STANDARD"
                    THEN StandardCellsFrom(
                            [c \in 1..GridSize |->
                                IF idx = 1 /\ cardIdx = calc.card /\ c - 1 = calc.col
                                THEN SubSeq(calc.possible, 1, GridSize)
                                ELSE StandardColumns[c - 1][calc.r]])
                    ELSE ThemedCells(calc.items, calc.r)]]
    IN /\ calc.fn = "generateCards"
       /\ ~calc.returned
       /\ calc.j = 0
       /\ calc' = [calc EXCEPT !.returned = TRUE,
                               !.possible = <<>>,
                               !.cards = generateCardsAll(calc.playerNames, calc.startIndex,
                                                          calc.time, cellsOf)]
       /\ UNCHANGED <<sessionVars, dialog>>

\* ---- checkPatternMatch on a card as its cells get marked
InitMatch ==
    /\ InitSession
    /\ dialog = InitialDialog
    /\ calc \in {[fn |-> "checkPatternMatch", cells |-> StandardCells(0), patterns |-> patterns,
                  evaluated |-> FALSE, result |-> FALSE] :
                    patterns \in {getStandardPatterns, getPatternPreset("BLACKOUT"),
                                  getPatternPreset("X"), getPatternPreset("CORNERS")}}

\* the caller marks one more cell of the card before the next evaluation
MarkCell(n) ==
    /\ calc.fn = "checkPatternMatch"
    /\ Cardinality({m \in 1..Len(calc.cells) : calc.cells[m].marked}) < MaxMarks
    /\ ~calc.cells[n].marked
    /\ ~calc.cells[n].isFreeSpace
    /\ calc' = [calc EXCEPT !.cells[n].marked = TRUE, !.evaluated = FALSE, !.result = FALSE]
    /\ UNCHANGED <<sessionVars, dialog>>

EvaluateMatch ==
    /\ calc.fn = "checkPatternMatch"
    /\ ~calc.evaluated
    /\ calc' = [calc EXCEPT !.evaluated = TRUE,
                            !.result = checkPatternMatch(calc.cells, calc.patterns)]
    /\ UNCHANGED <<sessionVars, dialog>>


\* ---- GameSetup.tsx: the setup form, on screen until onStartGame has run
setHostName(name) ==
    /\ dialog.passed = <<>>
    /\ dialog' = [dialog EXCEPT !.hostName = name]
    /\ UNCHANGED <<sessionVars, calc>>

setMode(mode) ==
    /\ dialog.passed = <<>>
    /\ dialog' = [dialog EXCEPT !.mode = mode]
    /\ UNCHANGED <<sessionVars, calc>>

setThemeInput(text) ==
    /\ dialog.passed = <<>>
    /\ dialog' = [dialog EXCEPT !.themeInput = text]
    /\ UNCHANGED <<sessionVars, calc>>

setPatternType(type) ==
    /\ dialog.passed = <<>>
    /\ dialog' = [dialog EXCEPT !.patternType = type]
    /\ UNCHANGED <<sessionVars, calc>>

\* the grid buttons are disabled unless patternType is CUSTOM
toggleCustomCell(idx) ==
    /\ dialog.passed = <<>>
    /\ dialog.patternType = "CUSTOM"
    /\ dialog' = [dialog EXCEPT !.customGrid = IF idx \in @ THEN @ \ {idx} ELSE @ \cup {idx},
                                !.patternType = "CUSTOM"]
    /\ UNCHANGED <<sessionVars, calc>>

\* indices: customGrid.map((active, idx) => active ? idx : -1).filter(i => i !== -1)
WinPatternsOf(render) ==
    LET grid == render.customGrid
        indices == CHOOSE seq \in [1..Cardinality(grid) -> grid] :
                        \A a, b \in 1..Cardinality(grid) : a < b => seq[a] < seq[b]
    IN IF render.patternType = "CUSTOM" THEN << indices >>
       ELSE IF render.patternType = "STANDARD" THEN getStandardPatterns
       ELSE getPatternPreset(render.patternType)

RenderOf(d) ==
    [hostName |-> d.hostName, mode |-> d.mode, themeInput |-> d.themeInput,
     patternType |-> d.patternType, customGrid |-> d.customGrid]

StartArgs(render, items) ==
    [mode |-> render.mode, items |-> items,
     theme |-> IF render.mode = "STANDARD" THEN "Classic Numbers" ELSE render.themeInput,
     hostName |-> render.hostName, winPatterns |-> WinPatternsOf(render)]

\* the start with the test for an empty custom grid left out
handleStartClick_NoEmptyTest ==
    /\ dialog.passed = <<>>
    /\ ~dialog.isLoading
    /\ LET render == RenderOf(dialog)
           clicked == [dialog EXCEPT !.error = "", !.closure = render] IN
        dialog' =
            IF trim(dialog.hostName) = ""
            THEN [clicked EXCEPT !.error = "Please enter a name for the Host."]
            ELSE IF dialog.mode = "STANDARD"
            THEN [clicked EXCEPT !.passed = StartArgs(render, Range(1, 75))]
            ELSE IF trim(dialog.themeInput) = ""
            THEN [clicked EXCEPT !.error = "Please enter a theme for the AI to generate."]
            ELSE [clicked EXCEPT !.isLoading = TRUE]
    /\ UNCHANGED <<sessionVars, calc>>

\* handleStart as the form sees it: the start button is disabled while loading
handleStartClick ==
    /\ dialog.passed = <<>>
    /\ ~dialog.isLoading
    /\ LET render == RenderOf(dialog)
           clicked == [dialog EXCEPT !.error = "", !.closure = render] IN
        dialog' =
            IF trim(dialog.hostName) = ""
            THEN [clicked EXCEPT !.error = "Please enter a name for the Host."]
            ELSE IF dialog.patternType = "CUSTOM" /\ dialog.customGrid = {}
            THEN [clicked EXCEPT !.error = "Custom pattern cannot be empty."]
            ELSE IF dialog.mode = "STANDARD"
            THEN [clicked EXCEPT !.passed = StartArgs(render, Range(1, 75))]
            ELSE IF trim(dialog.themeInput) = ""
            THEN [clicked EXCEPT !.error = "Please enter a theme for the AI to generate."]
            ELSE [clicked EXCEPT !.isLoading = TRUE]
    /\ UNCHANGED <<sessionVars, calc>>

\* await generateThemedItems(themeInput) resolves: onStartGame gets the values
\* of the render the click ran in
ThemeResolved(reply) ==
    /\ dialog.passed = <<>>
    /\ dialog.isLoading
    /\ dialog' = [dialog EXCEPT !.passed = StartArgs(dialog.closure, generateThemedItems(reply)),
                                !.isLoading = FALSE]
    /\ UNCHANGED <<sessionVars, calc>>

\* the request or the parse throws: catch sets the error, finally ends loading
ThemeFailed ==
    /\ dialog.passed = <<>>
    /\ dialog.isLoading
    /\ dialog' = [dialog EXCEPT !.error = "Failed to generate Bingo theme. Please try again or use Standard mode.",
                                !.isLoading = FALSE]
    /\ UNCHANGED <<sessionVars, calc>>


\* ---- a STANDARD round with the ANY_LINE patterns in which the host and one
\* connected player each hold a card whose row 0 is 3, 20, 38, 52, 68
InitRound ==
    LET colNumbers == << <<3, 1, 2, 4, 5>>, <<20, 16, 17, 18, 19>>, <<38, 31, 32, 33, 34>>,
                         <<52, 46, 47, 48, 49>>, <<68, 61, 62, 63, 64>> >>
        cards == generateCardsAll(<<"Host", "Ann">>, 0, 0,
                    [idx \in 1..2 |-> [cardIdx \in 0..(CardsPerPlayer - 1) |->
                        IF cardIdx = 0 THEN StandardCellsFrom(colNumbers) ELSE StandardCells(0)]])
    IN /\ InitSession
       /\ dialog = InitialDialog
       /\ calc = [fn |-> "round",
                  host |-> Rendered(NewGameState(StandardConfig, cards)),
                  player |-> OnWelcome([IdleClient EXCEPT !.playerName = "Ann"],
                                       [type |-> "WELCOME",
                                        cards |-> SelectSeq(cards, LAMBDA card : card.ownerIndex = 1),
                                        playerIndex |-> 1, calledItems |-> <<>>,
                                        winPatterns |-> StandardConfig.winPatterns,
                                        currentCall |-> NoCall]),
                  toClient |-> <<>>]

\* callNextNumber() with the reading that selects `item`, and the render after it
RoundCall(item) ==
    /\ calc.fn = "round"
    /\ Includes(AvailableItems(calc.host), item)
    /\ calc' = [calc EXCEPT !.host = Rendered(CalledState(@, item)),
                            !.toClient = Append(@, [type |-> "NEXT_CALL", payload |-> item])]
    /\ UNCHANGED <<sessionVars, dialog>>

\* the player's handleMessage on the NEXT_CALL at the head of the channel
RoundReceive ==
    /\ calc.fn = "round"
    /\ calc.toClient # <<>>
    /\ calc' = [calc EXCEPT !.player = OnNextCall(@, Head(calc.toClient)),
                            !.toClient = Tail(@)]
    /\ UNCHANGED <<sessionVars, dialog>>


\* ---- ActiveGame.tsx: calling through a whole pool, with the host's notifications
GameOverNote == "Game Over! All numbers called."

\* addNotification(msg): [msg, ...prev].slice(0, 5)
addNotification(notifications, msg) ==
    LET list == <<msg>> \o notifications IN
    SubSeq(list, 1, IF Len(list) < NotificationsKept THEN Len(list) ELSE NotificationsKept)

\* the host's screen of a round just started for the host alone
InitCalls ==
    /\ InitSession
    /\ dialog = InitialDialog
    /\ calc \in {[fn |-> "calls",
                  host |-> Rendered(NewGameState(cfg,
                              generateCards(cfg.items, cfg.mode, cfg.hostName, 0, 0, 0))),
                  isAutoCalling |-> FALSE, timer |-> FALSE, notifications |-> <<>>,
                  toClient |-> <<>>, lastOp |-> [op |-> "mount", item |-> NoCall]] :
                    cfg \in Configs}

\* the render after a handler: the hasBingo effect, and the auto-call effect,
\* which with auto-calling on either arms the timeout or, when nothing is left
\* to call, switches auto-calling off and notifies
CallsRendered(frame) ==
    [frame EXCEPT !.host = Rendered(@),
                  !.isAutoCalling = AutoCallOn(frame.host, @, NoCard),
                  !.timer = AutoCallArmed(frame.host, frame.isAutoCalling, NoCard),
                  !.notifications = IF frame.isAutoCalling /\ AvailableItems(frame.host) = <<>>
                                    THEN addNotification(@, GameOverNote)
                                    ELSE @]

\* callNextNumber() in a render whose state is frame.host
CallsNext(frame, r) ==
    LET availableItems == AvailableItems(frame.host) IN
    IF Len(availableItems) = 0
    THEN [frame EXCEPT !.lastOp = [op |-> "callNextNumber", item |-> NoCall]]
    ELSE LET nextItem == availableItems[RandomInt(r, Len(availableItems)) + 1] IN
         CallsRendered([frame EXCEPT !.host = CalledState(@, nextItem),
                                     !.toClient = Append(@, [type |-> "NEXT_CALL", payload |-> nextItem]),
                                     !.lastOp = [op |-> "callNextNumber", item |-> nextItem]])

\* the Next button, disabled while auto-calling
CallsNextClick(r) ==
    /\ calc.fn = "calls"
    /\ ~calc.isAutoCalling
    /\ calc' = CallsNext(calc, r)
    /\ UNCHANGED <<sessionVars, dialog>>

\* the auto-call timeout fires
CallsTimeout(r) ==
    /\ calc.fn = "calls"
    /\ calc.timer
    /\ calc' = CallsNext([calc EXCEPT !.timer = FALSE], r)
    /\ UNCHANGED <<sessionVars, dialog>>

\* the play / pause button
CallsToggleAuto ==
    /\ calc.fn = "calls"
    /\ calc' = CallsRendered([calc EXCEPT !.isAutoCalling = ~@,
                                          !.lastOp = [op |-> "setIsAutoCalling", item |-> NoCall]])
    /\ UNCHANGED <<sessionVars, dialog>>

\* five seconds after addNotification(msg): every entry equal to msg goes
NotificationExpires ==
    /\ calc.fn = "calls"
    /\ calc.notifications # <<>>
    /\ calc' = [calc EXCEPT !.notifications = SelectSeq(@, LAMBDA n : n # GameOverNote),
                            !.lastOp = [op |-> "expire", item |-> NoCall]]
    /\ UNCHANGED <<sessionVars, dialog>>


\* ------------------------------------------------------------ specification
ConnsOf(players) == players \X Attempts

\* Claims: one round with one player who joins, marks and claims.  The player
\* joins once and under a name that holds no cards, so the JOIN_REQUEST handler
\* takes its new-player branch.
Claimants == {"c1"}

\* the calls of a round are capped while a player is in the session
CallsLeft == Len(gameState.calledItems) < MaxCalls

\* a player's first press of Connect; the operator's first round start
FirstAttempt(c) == client[c].attempts = 0
FirstRound == rounds = 0

NextClaims ==
    \/ Render
    \/ \E k \in ConnsOf(Claimants), time \in {now, now + 1}, r \in ShuffleRand : JoinNew(k, time, r)
    \/ \E k \in ConnsOf(Claimants) : ClaimBingo(k)
    \/ \E r \in Rand : CallsLeft /\ callNextNumber(r)
    \/ \E r \in Rand : CallsLeft /\ AutoCall(r)
    \/ ToggleAutoCalling
    \/ \E c \in Claimants : \E typed \in TypedNames(c) : FirstAttempt(c) /\ connectToRoom(c, typed)
    \/ \E c \in Claimants, g \in Attempts : PeerOpen(c, g)
    \/ \E k \in ConnsOf(Claimants) : ConnOpen(k)
    \/ \E k \in ConnsOf(Claimants) : ClientReceive(k)
    \/ \E c \in Claimants : ClientCellClick(c)
    \/ \E c \in Claimants : initiateBingoCall(c)
    \/ \E c \in Claimants : cancelBingo(c)
    \/ \E c \in Claimants : confirmBingo(c)

SpecClaims == Init /\ [][NextClaims]_vars

\* Host: the operator's own boards, the Next button and the auto-caller
NextHost ==
    \/ Render
    \/ \E r \in Rand : callNextNumber(r)
    \/ \E r \in Rand : AutoCall(r)
    \/ ToggleAutoCalling
    \/ HostCellClick
    \/ HostInitiateBingo
    \/ HostCancelBingo
    \/ handleHostClaimBingo
    \/ \E cfg \in Configs, r \in ShuffleRand : FirstRound /\ handleStart(cfg, r)
    \/ \E r \in ShuffleRand : onStartGame(r)
    \/ handleStartFailed

SpecHost == Init /\ [][NextHost]_vars

\* Rounds: one player across calls and a round reset
NextRounds ==
    \/ Render
    \/ \E k \in ConnsOf(Claimants) : JoinExisting(k)
    \/ \E k \in ConnsOf(Claimants), time \in {now, now + 1}, r \in ShuffleRand : JoinNew(k, time, r)
    \/ \E r \in Rand : CallsLeft /\ callNextNumber(r)
    \/ \E cfg \in Configs, r \in ShuffleRand : FirstRound /\ handleStart(cfg, r)
    \/ \E r \in ShuffleRand : onStartGame(r)
    \/ handleStartFailed
    \/ \E c \in Claimants : \E typed \in TypedNames(c) : FirstAttempt(c) /\ connectToRoom(c, typed)
    \/ \E c \in Claimants, g \in Attempts : PeerOpen(c, g)
    \/ \E k \in ConnsOf(Claimants) : ConnOpen(k)
    \/ \E k \in ConnsOf(Claimants) : ClientReceive(k)

SpecRounds == Init /\ [][NextRounds]_vars

\* Joins: two players and a round reset
NextJoins ==
    \/ Render
    \/ \E k \in Conns : JoinExisting(k)
    \/ \E k \in Conns, time \in {now, now + 1}, r \in ShuffleRand : JoinNew(k, time, r)
    \/ \E cfg \in RoundConfigs, r \in ShuffleRand : FirstRound /\ handleStart(cfg, r)
    \/ \E r \in ShuffleRand : onStartGame(r)
    \/ handleStartFailed
    \/ \E c \in Clients : \E typed \in TypedNames(c) : FirstAttempt(c) /\ connectToRoom(c, typed)
    \/ \E c \in Clients, g \in Attempts : PeerOpen(c, g)
    \/ \E k \in Conns : ConnOpen(k)
    \/ \E k \in Conns : ClientReceive(k)

SpecJoins == Init /\ [][NextJoins]_vars

\* Connections: one player's connection attempts, timeouts, closes and
\* re-joins while the host calls items by hand and by the auto-caller
NextConnections ==
    \/ Render
    \/ \E k \in ConnsOf(Claimants) : JoinExisting(k)
    \/ \E k \in ConnsOf(Claimants), time \in {now, now + 1}, r \in ShuffleRand : JoinNew(k, time, r)
    \/ \E r \in Rand : CallsLeft /\ callNextNumber(r)
    \/ \E r \in Rand : CallsLeft /\ AutoCall(r)
    \/ ToggleAutoCalling
    \/ \E c \in Claimants : \E typed \in TypedNames(c) : connectToRoom(c, typed)
    \/ \E c \in Claimants, g \in Attempts : PeerOpen(c, g)
    \/ \E c \in Claimants, g \in Attempts : ConnectTimeout(c, g)
    \/ \E k \in ConnsOf(Claimants) : ConnOpen(k)
    \/ \E k \in ConnsOf(Claimants) : ConnClose(k)
    \/ \E k \in ConnsOf(Claimants) : ClientReceive(k)

SpecConnections == Init /\ [][NextConnections]_vars

\* Resets: one player who joins once and stays through successive round starts
NextResets ==
    \/ Render
    \/ \E k \in ConnsOf(Claimants) : JoinExisting(k)
    \/ \E k \in ConnsOf(Claimants), time \in {now, now + 1}, r \in ShuffleRand : JoinNew(k, time, r)
    \/ \E cfg \in RoundConfigs, r \in ShuffleRand : handleStart(cfg, r)
    \/ \E r \in ShuffleRand : onStartGame(r)
    \/ handleStartFailed
    \/ \E c \in Claimants : \E typed \in TypedNames(c) : FirstAttempt(c) /\ connectToRoom(c, typed)
    \/ \E c \in Claimants, g \in Attempts : PeerOpen(c, g)
    \/ \E k \in ConnsOf(Claimants) : ConnOpen(k)
    \/ \E k \in ConnsOf(Claimants) : ClientReceive(k)

SpecResets == Init /\ [][NextResets]_vars

\* the chat messages sent so far that were not lost with a closed channel
ChatsInFlight ==
    {<<k, i>> \in Conns \X (1..MaxChats) :
        i <= Len(toHost[k]) /\ toHost[k][i].type = "CHAT_MESSAGE"}

ChatsLeft == Len(chatMessages) + Cardinality(ChatsInFlight) < MaxChats

\* Chat: two players and the operator exchange chat messages
NextChat ==
    \/ Render
    \/ \E k \in Conns, time \in {now, now + 1}, r \in ShuffleRand : JoinNew(k, time, r)
    \/ \E c \in Clients : \E typed \in TypedNames(c) : FirstAttempt(c) /\ connectToRoom(c, typed)
    \/ \E c \in Clients, g \in Attempts : PeerOpen(c, g)
    \/ \E k \in Conns : ConnOpen(k)
    \/ \E k \in Conns : ConnClose(k)
    \/ \E k \in Conns : ClientReceive(k)
    \/ \E c \in Clients, text \in ChatTexts : ChatsLeft /\ ClientSendChat(c, text)
    \/ \E k \in Conns : RelayChat(k)
    \/ \E text \in ChatTexts : ChatsLeft /\ HostSendChat(text)

SpecChat == Init /\ [][NextChat]_vars

\* Marks: one player who marks by hand or automatically, loses the channel and
\* re-joins while the host calls items
NextMarks ==
    \/ Render
    \/ \E k \in ConnsOf(Claimants) : JoinExisting(k)
    \/ \E k \in ConnsOf(Claimants), time \in {now, now + 1}, r \in ShuffleRand : JoinNew(k, time, r)
    \/ \E r \in Rand : CallsLeft /\ callNextNumber(r)
    \/ \E c \in Claimants : \E typed \in TypedNames(c) : connectToRoom(c, typed)
    \/ \E c \in Claimants, g \in Attempts : PeerOpen(c, g)
    \/ \E k \in ConnsOf(Claimants) : ConnOpen(k)
    \/ \E k \in ConnsOf(Claimants) : ConnClose(k)
    \/ \E k \in ConnsOf(Claimants) : ClientReceive(k)
    \/ \E c \in Claimants : ToggleAutoMark(c)
    \/ \E c \in Claimants : ClientCellClick(c)

SpecMarks == Init /\ [][NextMarks]_vars

\* Patterns: one player in a round the operator starts with the CUSTOM grid
\* left as pre-filled
NextPatterns ==
    \/ Render
    \/ \E k \in ConnsOf(Claimants), time \in {now, now + 1}, r \in ShuffleRand : JoinNew(k, time, r)
    \/ \E r \in Rand : CallsLeft /\ callNextNumber(r)
    \/ \E r \in ShuffleRand : FirstRound /\ handleStart(CentreConfig, r)
    \/ \E c \in Claimants : \E typed \in TypedNames(c) : FirstAttempt(c) /\ connectToRoom(c, typed)
    \/ \E c \in Claimants, g \in Attempts : PeerOpen(c, g)
    \/ \E k \in ConnsOf(Claimants) : ConnOpen(k)
    \/ \E k \in ConnsOf(Claimants) : ClientReceive(k)
    \/ \E c \in Claimants : ToggleAutoMark(c)
    \/ \E c \in Claimants : ClientCellClick(c)

SpecPatterns == Init /\ [][NextPatterns]_vars

\* Foreign: one player joins a round in which the host calls, while messages
\* of no protocol use arrive at the host and at the player
NextForeign ==
    \/ Render
    \/ \E k \in ConnsOf(Claimants), time \in {now, now + 1}, r \in ShuffleRand : JoinNew(k, time, r)
    \/ \E k \in ConnsOf(Claimants) : ClaimBingo(k)
    \/ \E k \in ConnsOf(Claimants) : HostIgnores(k)
    \/ \E r \in Rand : CallsLeft /\ callNextNumber(r)
    \/ \E c \in Claimants : \E typed \in TypedNames(c) : FirstAttempt(c) /\ connectToRoom(c, typed)
    \/ \E c \in Claimants, g \in Attempts : PeerOpen(c, g)
    \/ \E k \in ConnsOf(Claimants) : ConnOpen(k)
    \/ \E k \in ConnsOf(Claimants) : ClientReceive(k)
    \/ \E k \in ConnsOf(Claimants), msg \in ForeignMessages : ForeignToHost(k, msg)
    \/ \E k \in ConnsOf(Claimants) : ForeignToClient(k, [type |-> "PING"])

SpecForeign == Init /\ [][NextForeign]_vars

\* Forged: one player joins a round in which the host calls, and the peer
\* behind the player's channel sends CLAIM_BINGO messages of its own making:
\* a card id of the round with an owner index of its choice, one at a time
\* and until a winner is recorded
NextForged ==
    \/ Render
    \/ \E k \in ConnsOf(Claimants), time \in {now, now + 1}, r \in ShuffleRand : JoinNew(k, time, r)
    \/ \E k \in ConnsOf(Claimants) : ClaimBingo(k)
    \/ \E r \in Rand : CallsLeft /\ callNextNumber(r)
    \/ \E c \in Claimants : \E typed \in TypedNames(c) : FirstAttempt(c) /\ connectToRoom(c, typed)
    \/ \E c \in Claimants, g \in Attempts : PeerOpen(c, g)
    \/ \E k \in ConnsOf(Claimants) : ConnOpen(k)
    \/ \E k \in ConnsOf(Claimants) : ClientReceive(k)
    \/ \E k \in ConnsOf(Claimants), i \in 1..Len(gameState.cards),
          playerIndex \in 0..(Len(gameState.cards) \div CardsPerPlayer) :
          /\ toHost[k] = <<>>
          /\ gameState.winnerIds = <<>>
          /\ ForeignToHost(k, [type |-> "CLAIM_BINGO", cardId |-> gameState.cards[i].id,
                               playerIndex |-> playerIndex])

SpecForged == Init /\ [][NextForged]_vars

\* Calls: the host calls a three-item pool to its end, by hand and by timer
NextCalls ==
    \/ \E r \in Rand : CallsNextClick(r)
    \/ \E r \in Rand : CallsTimeout(r)
    \/ CallsToggleAuto
    \/ NotificationExpires

SpecCalls == InitCalls /\ [][NextCalls]_vars

\* Round: the calls of one round as the host's and a player's cards see them;
\* the readings select the five items of row 0 and one the card does not hold
NextRound ==
    \/ \E item \in {3, 20, 38, 52, 68, 75} : RoundCall(item)
    \/ RoundReceive

SpecRound == InitRound /\ [][NextRound]_vars

\* Setup: the setup form from mount to the call of onStartGame
NextSetup ==
    \/ \E name \in {"Host", " "} : setHostName(name)
    \/ \E mode \in {"STANDARD", "THEMED"} : setMode(mode)
    \/ \E text \in {"", "Cats"} : setThemeInput(text)
    \/ \E type \in {"STANDARD", "BLACKOUT", "X", "CORNERS", "CUSTOM"} : setPatternType(type)
    \/ \E idx \in {0, 12, 24} : toggleCustomCell(idx)
    \/ handleStartClick
    \/ \E reply \in {<<>>, ThemedPool(3), ThemedPool(ThemedItemCount)} : ThemeResolved(reply)
    \/ ThemeFailed

SpecSetup == Init /\ [][NextSetup]_vars

\* Match: checkPatternMatch evaluated after every marking of up to MaxMarks cells
NextMatch ==
    \/ \E n \in 1..(GridSize * GridSize) : MarkCell(n)
    \/ EvaluateMatch

SpecMatch == InitMatch /\ [][NextMatch]_vars

\* Cards: calls of generateCards with every reading sequence of one shuffle
NextCards ==
    \/ \E r \in Rand : ShuffleStep(r)
    \/ GenerateReturn

SpecCards == InitCards /\ [][NextCards]_vars

\* --------------------------------------------------------------- properties
\* the CLAIM_BINGO message at the head of a connection names cardId
ClaimsCard(k, cardId) ==
    /\ toHost[k] # <<>>
    /\ Head(toHost[k]).type = "CLAIM_BINGO"
    /\ Head(toHost[k]).cardId = cardId

CardIds == {gameState.cards[i].id : i \in 1..Len(gameState.cards)}

\* C1 (Scenario C): when a second CLAIM_BINGO for a legitimately winning card
\* is handled in the tick that recorded the first one (the snapshot does not
\* show the card in winnerIds yet), the card stays in winnerIds exactly once
\* and no second BINGO_ANNOUNCED is sent.
C1_SameTickClaimsRecordOnce ==
    [][\A k \in Conns : \A cardId \in CardIds :
        (/\ ClaimsCard(k, cardId)
         /\ ClaimVerdict(cardId) = "announced"
         /\ Includes(gameState.winnerIds, cardId)
         /\ ClaimBingo(k))
        => (/\ Count(gameState'.winnerIds, cardId) = 1
            /\ toClient' = toClient)]_vars

\* a card wins on the called items alone: some pattern has every cell either
\* the free space or holding a called value
WinsOnCalls(cells, calledItems, winPatterns) ==
    \E p \in 1..Len(winPatterns) :
        \A q \in 1..Len(winPatterns[p]) :
            LET n == winPatterns[p][q] + 1 IN
                /\ n \in 1..Len(cells)
                /\ (cells[n].isFreeSpace \/ \E k \in 1..Len(calledItems) : calledItems[k] = cells[n].value)

VerifiedWinner(gs, cardId) ==
    \E i \in 1..Len(gs.cards) :
        /\ gs.cards[i].id = cardId
        /\ WinsOnCalls(gs.cards[i].cells, gs.calledItems, gs.winPatterns)

IsPrefix(s, t) == Len(s) <= Len(t) /\ SubSeq(t, 1, Len(s)) = s

\* C2: every card id in winnerIds belongs to a card that satisfies a win
\* pattern under marks rebuilt from calledItems and the free space, whichever
\* operation recorded it (a CLAIM_BINGO or the host's own confirmation after
\* manual toggles); and within a round winnerIds only grows.
C2_WinnersVerifiedAndGrowing ==
    /\ [](\A w \in 1..Len(gameState.winnerIds) :
            VerifiedWinner(gameState, gameState.winnerIds[w]))
    /\ [][rounds' = rounds => IsPrefix(gameState.winnerIds, gameState'.winnerIds)]_vars

\* C3 (Scenario B): handling a CLAIM_BINGO that names a card which satisfies
\* no win pattern under marks rebuilt from the host's calledItems and the
\* free space leaves winnerIds unchanged and sends nothing to any client.
C3_FalseClaimIsSilent ==
    [][\A k \in Conns : \A cardId \in CardIds :
        (/\ ClaimsCard(k, cardId)
         /\ ~VerifiedWinner(gameState, cardId)
         /\ ClaimBingo(k))
        => (/\ gameState'.winnerIds = gameState.winnerIds
            /\ toClient' = toClient)]_vars

\* a false claim has been handled while the claimant's own board shows a win
C3_FalseClaimHandled ==
    /\ lastOp = [op |-> "claimBingo", verdict |-> "false"]
    /\ \E c \in Clients : \E i \in 1..Len(client[c].cards) : client[c].cards[i].hasBingo

\* C4: handling a CLAIM_BINGO for a card id that is already in winnerIds
\* changes nothing in the host's game state and broadcasts nothing, so
\* successive claims for one winning card leave one entry in winnerIds.
C4_RepeatedClaimIsNoOp ==
    [][\A k \in Conns : \A cardId \in CardIds :
        (/\ ClaimsCard(k, cardId)
         /\ Includes(gameState.winnerIds, cardId)
         /\ ClaimBingo(k))
        => (/\ gameState' = gameState
            /\ toClient' = toClient)]_vars

\* C5: a CONNECTED client with no host-to-client message in flight holds
\* the host's calledItems: same values, same order, no value twice.
C5_ClientCalledItemsMatchHost ==
    \A c \in Clients :
        (client[c].status = "CONNECTED" /\ \A g \in Attempts : toClient[<<c, g>>] = <<>>)
        => client[c].calledItems = gameState.calledItems

Values(seq) == {seq[i] : i \in 1..Len(seq)}

NoValueTwice(seq) == \A i, j \in 1..Len(seq) : seq[i] = seq[j] => i = j

\* a step of callNextNumber(), from the Next button or from the auto-caller
CallStep == \E r \in Rand : callNextNumber(r) \/ AutoCall(r)

\* C6: calledItems never holds a value twice and holds only members of
\* allItems; each successful callNext adds exactly one value, and that value
\* was not in calledItems before the call.
C6_CalledItemsDistinct ==
    /\ [](/\ NoValueTwice(gameState.calledItems)
          /\ Values(gameState.calledItems) \subseteq Values(gameState.allItems))
    /\ [][CallStep =>
            /\ Len(gameState'.calledItems) = Len(gameState.calledItems) + 1
            /\ \E x \in Values(gameState.allItems) \ Values(gameState.calledItems) :
                    Values(gameState'.calledItems) = Values(gameState.calledItems) \cup {x}]_vars

\* the host handles the JOIN_REQUEST at the head of a connection
JoinStep(k) ==
    \/ JoinExisting(k)
    \/ \E time \in {now, now + 1}, r \in ShuffleRand : JoinNew(k, time, r)

\* positions of the cards held for a player name, letter case ignored
CardsOfName(cards, name) ==
    {i \in 1..Len(cards) : toLowerCase(cards[i].playerName) = toLowerCase(name)}

CardsOfOwner(cards, idx) == {i \in 1..Len(cards) : cards[i].ownerIndex = idx}

IdsAt(cards, positions) == {cards[i].id : i \in positions}

\* C7: a JOIN_REQUEST whose name matches, case-insensitively, a player who
\* holds cards in the round generates no cards and is answered with that
\* player's owner index and the ids of the four cards held for it.
C7_RejoinKeepsCards ==
    [][\A k \in Conns :
        (/\ toHost[k] # <<>>
         /\ Head(toHost[k]).type = "JOIN_REQUEST"
         /\ CardsOfName(gameState.cards, Head(toHost[k]).playerName) # {}
         /\ JoinStep(k))
        => LET held == CardsOfName(gameState.cards, Head(toHost[k]).playerName)
               idx == gameState.cards[SeqMin(held)].ownerIndex
               welcome == toClient'[k][Len(toClient'[k])]
           IN /\ gameState'.cards = gameState.cards
              /\ Cardinality(CardsOfOwner(gameState'.cards, idx)) = CardsPerPlayer
              /\ welcome.type = "WELCOME"
              /\ welcome.playerIndex = idx
              /\ IdsAt(welcome.cards, 1..Len(welcome.cards))
                    = IdsAt(gameState.cards, CardsOfOwner(gameState.cards, idx))]_vars

\* C8: all cards with one ownerIndex carry one player name, and every owner
\* index that has cards has exactly four.
C8_OwnerIndexPerPlayer ==
    \A i \in 1..Len(gameState.cards) :
        /\ \A j \in 1..Len(gameState.cards) :
                gameState.cards[i].ownerIndex = gameState.cards[j].ownerIndex
                => gameState.cards[i].playerName = gameState.cards[j].playerName
        /\ Cardinality(CardsOfOwner(gameState.cards, gameState.cards[i].ownerIndex))
                = CardsPerPlayer

\* C9: no two cards of the host's state share an id.
C9_CardIdsUnique ==
    \A i, j \in 1..Len(gameState.cards) :
        gameState.cards[i].id = gameState.cards[j].id => i = j

\* startNewRound runs with the outcome cfg of the setup dialog
RoundStarts(cfg) ==
    \/ cfg.mode = "STANDARD" /\ \E r \in ShuffleRand : handleStart(cfg, r)
    \/ setup # NoSetup /\ setup.cfg = cfg /\ \E r \in ShuffleRand : onStartGame(r)

\* C10: after startNewRound the host state has no called items, no current
\* call, no winners, the new mode, pool and patterns, four newly generated
\* cards for every owner index that had cards before, and no other cards.
C10_NewRoundState ==
    [][\A cfg \in RoundConfigs :
        RoundStarts(cfg)
        => /\ gameState'.calledItems = <<>>
           /\ gameState'.currentCall = NoCall
           /\ gameState'.winnerIds = <<>>
           /\ gameState'.mode = cfg.mode
           /\ gameState'.allItems = cfg.items
           /\ gameState'.winPatterns = cfg.winPatterns
           /\ OwnerIndices(gameState'.cards) = OwnerIndices(gameState.cards)
           /\ \A idx \in OwnerIndices(gameState.cards) :
                /\ Cardinality(CardsOfOwner(gameState'.cards, idx)) = CardsPerPlayer
                /\ IdsAt(gameState'.cards, CardsOfOwner(gameState'.cards, idx))
                        \cap IdsAt(gameState.cards, 1..Len(gameState.cards)) = {}]_vars

\* nothing is in flight on any connection of player c
Quiet(c) == \A g \in Attempts : toHost[<<c, g>>] = <<>> /\ toClient[<<c, g>>] = <<>>

HasOpenChannel(c) == \E g \in Attempts : connOpen[<<c, g>>]

\* the host has rendered every queued update and no round start is pending
HostSettled ==
    /\ setup = NoSetup
    /\ gameStateRef = gameState
    /\ rendered = [isAutoCalling |-> isAutoCalling, confirmingBingoCardId |-> hostConfirming]

\* id and cell values of each card, in order
Faces(cards) ==
    [i \in 1..Len(cards) |->
        [id |-> cards[i].id, values |-> [n \in 1..Len(cards[i].cells) |-> cards[i].cells[n].value]]]

HostCardsOf(idx) == SelectSeq(gameState.cards, LAMBDA card : card.ownerIndex = idx)

\* C11: after startNewRound, once everything in flight has been delivered and
\* handled and nothing has been called in the new round, every player whose
\* channel is open holds exactly the four cards the host stores for that
\* player's owner index, an empty called-items history, no current call and
\* no announced winners.
C11_ResetReachesPlayers ==
    \A c \in Clients :
        (/\ rounds >= 1
         /\ HostSettled
         /\ gameState.calledItems = <<>>
         /\ HasOpenChannel(c)
         /\ Quiet(c))
        => /\ client[c].status = "CONNECTED"
           /\ Len(client[c].cards) = CardsPerPlayer
           /\ Faces(client[c].cards) = Faces(HostCardsOf(client[c].playerIndex))
           /\ client[c].calledItems = <<>>
           /\ client[c].currentCall = NoCall
           /\ client[c].announcedWinners = <<>>

\* an earlier connection of the player behind connection k has closed
Reconnecting(k) == \E g \in Attempts : client[k[1]].stage[g] = "closed"

\* C12: a channel that closes changes nothing in the host's state, and a later
\* JOIN_REQUEST under the same name in the same round is answered with the
\* owner index and the cards the host holds for that name together with the
\* host's current called-items history.
C12_CloseAndRejoin ==
    [][\A k \in Conns :
        /\ ConnClose(k) => UNCHANGED <<gameState, gameStateRef, connectionsRef, hostVars>>
        /\ (/\ Reconnecting(k)
            /\ toHost[k] # <<>>
            /\ Head(toHost[k]).type = "JOIN_REQUEST"
            /\ CardsOfName(gameState.cards, Head(toHost[k]).playerName) # {}
            /\ JoinStep(k))
           => LET held == CardsOfName(gameState.cards, Head(toHost[k]).playerName)
                  idx == gameState.cards[SeqMin(held)].ownerIndex
                  welcome == toClient'[k][Len(toClient'[k])]
              IN /\ gameState'.cards = gameState.cards
                 /\ welcome.type = "WELCOME"
                 /\ welcome.playerIndex = idx
                 /\ IdsAt(welcome.cards, 1..Len(welcome.cards))
                       = IdsAt(gameState.cards, CardsOfOwner(gameState.cards, idx))
                 /\ welcome.calledItems = gameState.calledItems]_vars

GameMessages == {"NEXT_CALL", "BINGO_ANNOUNCED", "NEW_GAME", "GAME_RESET", "CHAT_MESSAGE"}

\* the game data a client shows
GameData(cl) ==
    <<cl.cards, cl.calledItems, cl.currentCall, cl.winPatterns, cl.announcedWinners,
      cl.chatMessages, cl.playerIndex, cl.confirmingBingoCardId>>

\* C13: a game message that arrives while the client is not CONNECTED changes
\* none of its game data, and no message that arrives while the client is in
\* ERROR changes its status.
C13_MessagesOnlyWhileConnected ==
    [][\A k \in Conns :
        (toClient[k] # <<>> /\ ClientReceive(k))
        => /\ (Head(toClient[k]).type \in GameMessages /\ client[k[1]].status # "CONNECTED")
                => GameData(client'[k[1]]) = GameData(client[k[1]])
           /\ client[k[1]].status = "ERROR" => client'[k[1]].status = "ERROR"]_vars

StatusMoves ==
    {<<"IDLE", "CONNECTING">>, <<"CONNECTING", "WAITING_FOR_HOST">>,
     <<"WAITING_FOR_HOST", "CONNECTED">>, <<"ERROR", "CONNECTING">>}

\* the step handles a WELCOME on one of the connections of player c
WelcomeStep(c) ==
    \E g \in Attempts :
        /\ toClient[<<c, g>>] # <<>>
        /\ Head(toClient[<<c, g>>]).type = "WELCOME"
        /\ ClientReceive(<<c, g>>)

\* C14: the connection status changes only along IDLE -> CONNECTING ->
\* WAITING_FOR_HOST -> CONNECTED, from any status to ERROR, and from ERROR to
\* CONNECTING; CONNECTED is entered only on a WELCOME.
C14_StatusMoves ==
    [][\A c \in Clients :
        client'[c].status # client[c].status
        => /\ \/ client'[c].status = "ERROR"
              \/ <<client[c].status, client'[c].status>> \in StatusMoves
           /\ client'[c].status = "CONNECTED" => WelcomeStep(c)]_vars

\* C15: when the timeout of a connection attempt fires and the attempt's
\* channel has not opened, the client is in ERROR afterwards, on the first
\* attempt and on every retry.
C15_TimeoutMeansError ==
    [][\A c \in Clients, g \in Attempts :
        (client[c].stage[g] = "conn" /\ ConnectTimeout(c, g))
        => client'[c].status = "ERROR"]_vars

\* the channels of player c that have opened so far
Opened(c) == {g \in Attempts : client[c].stage[g] \in {"open", "closed"}}

\* C16: a client has sent at most one JOIN_REQUEST per channel it opened plus
\* one per round the host has started, however many rounds are played.
C16_OneJoinPerReset ==
    \A c \in Clients : client[c].joins <= Cardinality(Opened(c)) + rounds

\* the host handles a CHAT_MESSAGE that arrived on connection k
RelayStep(k) ==
    /\ toHost[k] # <<>>
    /\ Head(toHost[k]).type = "CHAT_MESSAGE"
    /\ RelayChat(k)

\* connection j was registered by a JOIN_REQUEST
Registered(j) == Count(connectionsRef, j) > 0

\* queue q grew, and by copies of msg only
GotOnly(q, qNext, msg) ==
    /\ Len(qNext) > Len(q)
    /\ SubSeq(qNext, 1, Len(q)) = q
    /\ \A i \in (Len(q) + 1)..Len(qNext) : qNext[i] = msg

C18_ClaimsOnlyOpenWins ==
    [][\A c \in Clients :
        confirmBingo(c)
        => LET cardId == client[c].confirmingBingoCardId
           IN /\ \E i \in 1..Len(client[c].cards) :
                    client[c].cards[i].id = cardId /\ client[c].cards[i].hasBingo
              /\ ~Includes(client[c].announcedWinners, cardId)]_vars

\* the marked flag of every cell of every card, in order
Marks(cards) ==
    [i \in 1..Len(cards) |-> [n \in 1..Len(cards[i].cells) |-> cards[i].cells[n].marked]]

\* C19: switching a client between AUTO and MANUAL marking leaves the marked
\* flag of every cell as it was; no call received before the switch is applied
\* or withdrawn by it.
C19_SwitchLeavesMarks ==
    [][\A c \in Clients :
        ToggleAutoMark(c) => Marks(client'[c].cards) = Marks(client[c].cards)]_vars

\* C20: each card a client holds has hasBingo equal to checkPatternMatch on
\* the card's current cells and the client's current winPatterns.
C20_HasBingoIsCurrent ==
    \A c \in Clients : \A i \in 1..Len(client[c].cards) :
        client[c].cards[i].hasBingo
            = checkPatternMatch(client[c].cards[i].cells, client[c].winPatterns)

\* positions of the cards generated for the idx-th name of the call
CardsOfCall(idx) ==
    {i \in 1..Len(calc.cards) : calc.cards[i].ownerIndex = calc.startIndex + idx - 1}

\* C21: a call of generateCards returns, for each name given, exactly four
\* cards with cardIndex 0..3 and owner index startIndex plus the name's
\* position; each card has 25 cells, only the cell at index 12 is the free
\* space, and no cell is marked.
C21_GeneratedCardsShape ==
    (calc.fn = "generateCards" /\ calc.returned)
    => /\ Len(calc.cards) = CardsPerPlayer * Len(calc.playerNames)
       /\ \A idx \in 1..Len(calc.playerNames) :
            /\ Cardinality(CardsOfCall(idx)) = CardsPerPlayer
            /\ {calc.cards[i].cardIndex : i \in CardsOfCall(idx)} = 0..(CardsPerPlayer - 1)
            /\ \A i \in CardsOfCall(idx) : calc.cards[i].playerName = calc.playerNames[idx]
       /\ \A i \in 1..Len(calc.cards) :
            /\ Len(calc.cards[i].cells) = 25
            /\ {n \in 1..Len(calc.cards[i].cells) : calc.cards[i].cells[n].isFreeSpace} = {12 + 1}
            /\ \A n \in 1..Len(calc.cards[i].cells) : ~calc.cards[i].cells[n].marked

\* a call for two names has returned its eight cards
C21_TwoNamesGenerated ==
    /\ calc.fn = "generateCards"
    /\ calc.returned
    /\ Len(calc.playerNames) = 2
    /\ Len(calc.cards) = 2 * CardsPerPlayer

\* values in column c (0-based) of a card's cells, the free space left out
ColumnValues(cells, c) ==
    {cells[n].value : n \in {m \in 1..Len(cells) : (m - 1) % GridSize = c /\ ~cells[m].isFreeSpace}}

ColumnCells(cells, c) ==
    {m \in 1..Len(cells) : (m - 1) % GridSize = c /\ ~cells[m].isFreeSpace}

\* C22: on every STANDARD card, whatever the shuffle readings were, the
\* non-free cells of column c hold values in 15c+1..15c+15 and no two cells
\* of a column hold the same value.
C22_StandardColumnsDistinctInRange ==
    (calc.fn = "generateCards" /\ calc.returned /\ calc.themeMode = "STANDARD")
    => \A i \in 1..Len(calc.cards) : \A c \in 0..(GridSize - 1) :
          /\ ColumnValues(calc.cards[i].cells, c) \subseteq (15 * c + 1)..(15 * c + 15)
          /\ Cardinality(ColumnValues(calc.cards[i].cells, c))
                = Cardinality(ColumnCells(calc.cards[i].cells, c))

\* a STANDARD call has returned and the column shuffled step by step came out
\* in an order other than the ascending one
C22_ShuffledColumnReturned ==
    /\ calc.fn = "generateCards"
    /\ calc.returned
    /\ calc.themeMode = "STANDARD"
    /\ calc.col = 1
    /\ calc.cards[calc.card + 1].cells[1 + calc.col].value
          > calc.cards[calc.card + 1].cells[1 + GridSize + calc.col].value

\* values held by the non-free cells of a card
NonFreeValues(cells) == {cells[n].value : n \in {m \in 1..Len(cells) : ~cells[m].isFreeSpace}}

\* C24: a THEMED call given a pool of at least 24 pairwise distinct values
\* returns cards whose 24 non-free cells hold 24 pairwise distinct values of
\* the pool.
C24_ThemedCellsDistinct ==
    (/\ calc.fn = "generateCards"
     /\ calc.returned
     /\ calc.themeMode = "THEMED"
     /\ Len(calc.items) >= ThemedItemCount)
    => \A i \in 1..Len(calc.cards) :
          /\ NonFreeValues(calc.cards[i].cells) \subseteq {calc.items[n] : n \in 1..Len(calc.items)}
          /\ Cardinality(NonFreeValues(calc.cards[i].cells)) = ThemedItemCount

\* C23: a THEMED call of generateCards given a pool of fewer than 24 values
\* fails and returns no cards.
C23_SmallPoolGeneratesNothing ==
    (/\ calc.fn = "generateCards"
     /\ calc.returned
     /\ calc.themeMode = "THEMED"
     /\ Len(calc.items) < ThemedItemCount)
    => Len(calc.cards) = 0

MarkedCells(cells) == {n \in 1..Len(cells) : cells[n].marked}

\* indices of the cells that are marked or the free space
Covered(cells) == {n - 1 : n \in {m \in 1..Len(cells) : cells[m].marked \/ cells[m].isFreeSpace}}

\* the twelve lines of the grid as index sets: rows, columns, two diagonals
GridLines ==
    {{i \in 0..24 : i \div 5 = r} : r \in 0..4}
    \cup {{i \in 0..24 : i % 5 = c} : c \in 0..4}
    \cup {{i \in 0..24 : i \div 5 = i % 5}, {i \in 0..24 : (i \div 5) + (i % 5) = 4}}

\* C25: checkPatternMatch returns true exactly when some pattern of the set
\* has every index marked or free; with the ANY_LINE set that is exactly when
\* some row, column or diagonal is full, so a best line with four of five
\* gives false.
C25_MatchIffPatternCovered ==
    (calc.fn = "checkPatternMatch" /\ calc.evaluated)
    => /\ calc.result
            <=> \E p \in 1..Len(calc.patterns) :
                    {calc.patterns[p][q] : q \in 1..Len(calc.patterns[p])} \subseteq Covered(calc.cells)
       /\ calc.patterns = getStandardPatterns
            => (calc.result <=> \E line \in GridLines : line \subseteq Covered(calc.cells))

\* the top row has been marked cell by cell and the evaluation with the
\* ANY_LINE set returned true
C25_TopRowMatched ==
    /\ calc.fn = "checkPatternMatch"
    /\ calc.evaluated
    /\ calc.result
    /\ calc.patterns = getStandardPatterns
    /\ MarkedCells(calc.cells) = 1..5

\* the index set of each pattern of a list
PatternIndexSets(patterns) ==
    [p \in 1..Len(patterns) |-> {patterns[p][q] : q \in 1..Len(patterns[p])}]

\* C26: the win patterns a start passes for a preset are: for ANY_LINE twelve
\* index sets, the five rows, the five columns and the two diagonals; for
\* BLACKOUT the single set 0..24; for LETTER_X the single set
\* {0,4,6,8,12,16,18,20,24}; for FOUR_CORNERS the single set {0,4,20,24}.
C26_PresetIndexSets ==
    dialog.passed # <<>>
    => LET type == dialog.closure.patternType
           sets == PatternIndexSets(dialog.passed.winPatterns) IN
       /\ type = "STANDARD"
            => /\ Len(sets) = 12
               /\ {sets[p] : p \in 1..5} = {{i \in 0..24 : i \div 5 = r} : r \in 0..4}
               /\ {sets[p] : p \in 6..10} = {{i \in 0..24 : i % 5 = c} : c \in 0..4}
               /\ {sets[p] : p \in 11..12}
                    = {{i \in 0..24 : i \div 5 = i % 5}, {i \in 0..24 : (i \div 5) + (i % 5) = 4}}
       /\ type = "BLACKOUT" => sets = << 0..24 >>
       /\ type = "X" => sets = << {0, 4, 6, 8, 12, 16, 18, 20, 24} >>
       /\ type = "CORNERS" => sets = << {0, 4, 20, 24} >>

\* a round was started with the LETTER_X preset chosen
C26_StartedWithX ==
    /\ dialog.passed # <<>>
    /\ dialog.closure.patternType = "X"
    /\ Len(dialog.passed.winPatterns) = 1

\* C27: a start with CUSTOM chosen and no grid cell selected is rejected: the
\* form shows the error and onStartGame is not called; every CUSTOM start that
\* reaches onStartGame passes exactly one win pattern, the non-empty set of
\* the indices selected at the click.
C27_CustomStart ==
    /\ (/\ dialog.closure # <<>>
        /\ dialog.closure.patternType = "CUSTOM"
        /\ dialog.closure.customGrid = {}
        /\ trim(dialog.closure.hostName) # "")
       => /\ dialog.error = "Custom pattern cannot be empty."
          /\ dialog.passed = <<>>
          /\ ~dialog.isLoading
    /\ (dialog.passed # <<>> /\ dialog.closure.patternType = "CUSTOM")
       => /\ Len(dialog.passed.winPatterns) = 1
          /\ PatternIndexSets(dialog.passed.winPatterns)[1] = dialog.closure.customGrid
          /\ Len(dialog.passed.winPatterns[1]) = Cardinality(dialog.closure.customGrid)
          /\ dialog.closure.customGrid # {}

\* the host chose CUSTOM, cleared the pre-filled centre and pressed start
C27_EmptyCustomRejected ==
    /\ dialog.closure # <<>>
    /\ dialog.closure.patternType = "CUSTOM"
    /\ dialog.closure.customGrid = {}
    /\ dialog.error = "Custom pattern cannot be empty."
    /\ dialog.passed = <<>>

\* some line of the grid has every cell free or holding a value of `called`
LineCalled(cells, called) ==
    \E line \in GridLines : \A i \in line :
        cells[i + 1].isFreeSpace \/ cells[i + 1].value \in called

SeqValues(seq) == {seq[i] : i \in 1..Len(seq)}

\* the calls so far, oldest first (calledItems is kept newest first)
CallsInOrder(calledItems) == [i \in 1..Len(calledItems) |-> calledItems[Len(calledItems) + 1 - i]]

RowZero == <<3, 20, 38, 52, 68>>

\* C28 (Scenario A): with the ANY_LINE patterns a card's hasBingo is true
\* exactly from the call that first completes one of its lines: on the host's
\* copy after the call, on the player's copy after the call is received.  For
\* the card whose row 0 is 3, 20, 38, 52, 68 and calls 3, 20, 38, 52, 68 in
\* that order, hasBingo is false after each of the first four calls and true
\* after the fifth.
C28_BingoOnCompletingCall ==
    calc.fn = "round"
    => /\ \A i \in 1..Len(calc.host.cards) :
            calc.host.cards[i].hasBingo
                <=> LineCalled(calc.host.cards[i].cells, SeqValues(calc.host.calledItems))
       /\ \A i \in 1..Len(calc.player.cards) :
            calc.player.cards[i].hasBingo
                <=> LineCalled(calc.player.cards[i].cells, SeqValues(calc.player.calledItems))
       /\ \A n \in 0..5 :
            /\ CallsInOrder(calc.host.calledItems) = SubSeq(RowZero, 1, n)
                => (calc.host.cards[1].hasBingo <=> n = 5)
            /\ CallsInOrder(calc.player.calledItems) = SubSeq(RowZero, 1, n)
                => (calc.player.cards[1].hasBingo <=> n = 5)

\* the host has called 3, 20, 38, 52, 68 in that order, the player has
\* received all five, and the card with that row 0 shows hasBingo on both sides
C28_RowZeroCalled ==
    /\ calc.fn = "round"
    /\ [c \in 1..5 |-> calc.host.cards[1].cells[c].value] = RowZero
    /\ CallsInOrder(calc.host.calledItems) = RowZero
    /\ CallsInOrder(calc.player.calledItems) = RowZero
    /\ calc.host.cards[1].hasBingo
    /\ calc.player.cards[1].hasBingo

\* C29: a callNext made when every item of allItems is in calledItems issues
\* no NEXT_CALL and leaves calledItems, currentCall, cards and winnerIds
\* unchanged, and the exhausted condition is shown to the host; auto-calling
\* is off afterwards.
C29_ExhaustedCallSurfaced ==
    [][(/\ calc.fn = "calls"
        /\ AvailableItems(calc.host) = <<>>
        /\ calc'.lastOp = [op |-> "callNextNumber", item |-> NoCall]
        /\ calc.lastOp # calc'.lastOp)
       => (/\ calc'.toClient = calc.toClient
           /\ calc'.host = calc.host
           /\ ~calc'.isAutoCalling
           /\ Includes(calc'.notifications, GameOverNote))]_vars

\* a message the protocol gives no meaning to at its receiver
OutsideVocabulary(msg) ==
    msg.type \notin {"JOIN_REQUEST", "WELCOME", "NEW_GAME", "GAME_RESET", "NEXT_CALL",
                     "CLAIM_BINGO", "BINGO_ANNOUNCED", "CHAT_MESSAGE"}

UnheldClaim(msg) ==
    /\ msg.type = "CLAIM_BINGO"
    /\ \A i \in 1..Len(gameState.cards) : gameState.cards[i].id # msg.cardId

C31_NewPlayerSmallestIndex ==
    [][\A k \in Conns :
        (/\ toHost[k] # <<>>
         /\ Head(toHost[k]).type = "JOIN_REQUEST"
         /\ CardsOfName(gameState.cards, Head(toHost[k]).playerName) = {}
         /\ JoinStep(k))
        => LET used == OwnerIndices(gameState.cards)
               idx == SeqMin({n \in 0..Len(gameState.cards) : n \notin used})
               before == Len(gameState.cards)
               welcome == toClient'[k][Len(toClient'[k])]
           IN /\ Len(gameState'.cards) = before + CardsPerPlayer
              /\ SubSeq(gameState'.cards, 1, before) = gameState.cards
              /\ \A i \in (before + 1)..Len(gameState'.cards) :
                    gameState'.cards[i].ownerIndex = idx
              /\ toClient' = [toClient EXCEPT ![k] = Append(@, welcome)]
              /\ welcome.type = "WELCOME"
              /\ welcome.playerIndex = idx
              /\ welcome.cards = SubSeq(gameState'.cards, before + 1, Len(gameState'.cards))]_vars

\* C32: in every host state currentCall is none exactly when calledItems is
\* empty and is otherwise the first element of calledItems; each successful
\* callNext prepends the chosen item, marks it on the host's copy of every
\* card holding it, sends one NEXT_CALL carrying it on every open channel
\* (here: every open channel the host has registered), and leaves winnerIds,
\* allItems and winPatterns unchanged.
C32_CallNextEffects ==
    /\ [](IF gameState.calledItems = <<>>
          THEN gameState.currentCall = NoCall
          ELSE gameState.currentCall = Head(gameState.calledItems))
    /\ [][CallStep =>
            \E item \in SeqValues(gameState'.calledItems) :
                /\ gameState'.calledItems = <<item>> \o gameState.calledItems
                /\ Len(gameState'.cards) = Len(gameState.cards)
                /\ \A i \in 1..Len(gameState.cards) :
                      gameState'.cards[i].cells = MarkCalled(gameState.cards, item)[i].cells
                /\ \A k \in Conns :
                      toClient'[k] = IF connOpen[k] /\ Includes(connectionsRef, k)
                                     THEN Append(toClient[k], [type |-> "NEXT_CALL", payload |-> item])
                                     ELSE toClient[k]
                /\ gameState'.winnerIds = gameState.winnerIds
                /\ gameState'.allItems = gameState.allItems
                /\ gameState'.winPatterns = gameState.winPatterns]_vars

\* C33: the host's connection list never holds the same channel twice, so
\* that each broadcast (NEXT_CALL, BINGO_ANNOUNCED, GAME_RESET, host chat)
\* reaches each connected client at most once, after any sequence of joins,
\* re-joins and round resets.
C33_ChannelListedOnce ==
    \A k \in Conns : Count(connectionsRef, k) <= 1

\* C34: every BINGO_ANNOUNCED the host sends carries the owner index of the
\* player who owns the announced card in the host's state, whatever owner
\* index the CLAIM_BINGO carried.
C34_AnnouncedUnderOwner ==
    [][\A k \in Conns :
        (/\ Len(toClient'[k]) > Len(toClient[k])
         /\ toClient'[k][Len(toClient'[k])].type = "BINGO_ANNOUNCED")
        => LET msg == toClient'[k][Len(toClient'[k])]
           IN \E i \in 1..Len(gameState.cards) :
                 /\ gameState.cards[i].id = msg.cardId
                 /\ gameState.cards[i].ownerIndex = msg.playerIndex]_vars

\* C35: once a winner is recorded auto-calling is off, and no NEXT_CALL is
\* issued by the auto-call timer until the operator turns auto-calling on
\* again; nor is one issued while the operator's own bingo confirmation
\* dialog is open.
C35_NoAutoCallAfterWinner ==
    [][(\E r \in Rand : AutoCall(r))
        => /\ ~(gameState.winnerIds # <<>> /\ ~isAutoCalling)
           /\ hostConfirming = NoCard]_vars

\* C36: for a client in AUTO marking mode that has made no manual toggles,
\* once it is CONNECTED and every message sent to it is delivered, every
\* non-free cell of its cards whose value is in its calledItems is marked,
\* also when the player first joined after calls were made.
C36_AutoMarkCoversCalledItems ==
    \A c \in Clients :
        (/\ client[c].status = "CONNECTED"
         /\ client[c].isAutoMark
         /\ \A k \in ConnsOf({c}) : toClient[k] = <<>>)
        => \A i \in 1..Len(client[c].cards) :
              \A n \in 1..Len(client[c].cards[i].cells) :
                 LET cell == client[c].cards[i].cells[n]
                 IN (~cell.isFreeSpace /\ Includes(client[c].calledItems, cell.value))
                    => cell.marked

\* the cards the host holds for a player, by the name as first sent
CardsOfPlayer(cards, name) ==
    {i \in 1..Len(cards) : toLowerCase(trim(cards[i].playerName)) = toLowerCase(trim(name))}

\* C37: a player who stays connected through a round reset keeps its
\* identity: the JOIN_REQUEST it sends on GAME_RESET carries the name of its
\* first JOIN_REQUEST (the trimmed name field), the WELCOME it then receives
\* carries the owner index it held before, and when the host has handled
\* that JOIN_REQUEST it holds four cards, under one owner index, for the player.
C37_IdentityKeptThroughReset ==
    [][\A k \in Conns :
        LET c == k[1] IN
        /\ (/\ toClient[k] # <<>>
            /\ Head(toClient[k]).type = "GAME_RESET"
            /\ ClientReceive(k))
           => \A k2 \in Conns :
                 Len(toHost'[k2]) > Len(toHost[k2])
                 => toHost'[k2][Len(toHost'[k2])] =
                       [type |-> "JOIN_REQUEST", playerName |-> trim(client[c].playerName)]
        /\ (/\ toClient[k] # <<>>
            /\ Head(toClient[k]).type = "WELCOME"
            /\ client[c].status = "CONNECTED"
            /\ client[c].playerIndex # NoIndex
            /\ ClientReceive(k))
           => Head(toClient[k]).playerIndex = client[c].playerIndex
        /\ (/\ toHost[k] # <<>>
            /\ Head(toHost[k]).type = "JOIN_REQUEST"
            /\ rounds > 0
            /\ JoinStep(k))
           => LET held == CardsOfPlayer(gameState'.cards, Head(toHost[k]).playerName)
              IN /\ Cardinality(held) = CardsPerPlayer
                 /\ \A i, j \in held :
                       gameState'.cards[i].ownerIndex = gameState'.cards[j].ownerIndex]_vars

\* C38: an event of a superseded connection attempt (its channel opening,
\* closing or delivering a message, or its timeout) never changes the
\* client's status or game data; only the most recent attempt acts on them.
C38_SupersededAttemptInert ==
    [][\A k \in Conns :
        LET c == k[1]
            g == k[2]
        IN (/\ g < client[c].attempts
            /\ \/ ConnOpen(k)
               \/ ConnClose(k)
               \/ ConnectTimeout(c, g)
               \/ ClientReceive(k))
           => /\ client'[c].status = client[c].status
              /\ client'[c].cards = client[c].cards
              /\ client'[c].playerIndex = client[c].playerIndex
              /\ client'[c].calledItems = client[c].calledItems
              /\ client'[c].currentCall = client[c].currentCall
              /\ client'[c].winPatterns = client[c].winPatterns
              /\ client'[c].announcedWinners = client[c].announcedWinners]_vars

====
